---- MODULE Spec2Model ----
(***************************************************************************)
(* Model of the statistical query-extraction pipeline of                   *)
(* src/src/mcp-server.ts (class TrulyPureNLP, extractQueryPureNLP and the  *)
(* HTTP / JSON-RPC handlers in front of it).                               *)
(*                                                                         *)
(* Representation.                                                         *)
(*   - A JavaScript string is a sequence of characters; a character is a   *)
(*     one-letter TLA+ string.  The accented letter e-acute is written     *)
(*     "e'" and its capital "E'"; they stand for single characters.        *)
(*   - A JavaScript number that is not an integer is kept in fixed point:  *)
(*     weights and scores in units of 1/Scale, entropies in units of       *)
(*     1/EntropyScale, a phrase's coherence in units of 1/CoherenceDen,    *)
(*     ratios as [num, den] records.  Math.log and Math.log2 are the       *)
(*     tables LnTable and Log2Table, rounded to those units.               *)
(*   - undefined is the value Undefined.                                   *)
(***************************************************************************)
EXTENDS Integers, Sequences, FiniteSets, TLC

(***************************************************************************)
(* State: the requests the server holds, and the call of analyze in        *)
(* progress.  Node runs one handler at a time and no handler awaits, so    *)
(* there is one frame of extractQueryPureNLP / analyze at any moment.      *)
(***************************************************************************)
VARIABLES
  calls,             \* per request: the request, its status and its response
  current,           \* the request whose handler is running, 0 when none is
  clock,             \* the value new Date() would give
  replay             \* NoReplay, or the draws of an earlier run to be repeated

serverVars == <<calls, current, clock, replay>>

(***************************************************************************)
(* Characters and the character classes of the regular expressions         *)
(***************************************************************************)
LowerLetters ==
  <<"a","b","c","d","e","f","g","h","i","j","k","l","m",
    "n","o","p","q","r","s","t","u","v","w","x","y","z">>

UpperLetters ==
  <<"A","B","C","D","E","F","G","H","I","J","K","L","M",
    "N","O","P","Q","R","S","T","U","V","W","X","Y","Z">>

Digits == {"0","1","2","3","4","5","6","7","8","9"}

\* [àáâäèéêëìíîïòóôöùúûüçñýÿ]: the accented letters of the model's alphabet
DiacriticChars == {"e'"}

\* [$€£¥₹%]: the currency and percent signs of the model's alphabet
CurrencyChars == {"$", "%"}

\* \s: the white space of the model's alphabet
SpaceChars == {" ", "\n"}

\* [aeiouàáâäèéêëìíîïòóôöùúûüçñýÿ]
VowelChars == {"a","e","i","o","u"} \cup DiacriticChars

\* [bcdfghjklmnpqrstvwxyz]
ConsonantChars ==
  {"b","c","d","f","g","h","j","k","l","m","n","p","q","r","s","t","v","w","x","y","z"}

LowerSet == {LowerLetters[i] : i \in 1..26}

UpperSet == {UpperLetters[i] : i \in 1..26}

IsLowerAZ(c) == c \in LowerSet

IsUpperAZ(c) == c \in UpperSet

\* the lower-case letter of each upper-case letter
LowerTable == [u \in UpperSet |-> LowerLetters[CHOOSE i \in 1..26 : UpperLetters[i] = u]]

\* \w of a JavaScript regular expression without the u flag: [A-Za-z0-9_]
IsWordChar(c) == IsLowerAZ(c) \/ IsUpperAZ(c) \/ c \in Digits \/ c = "_"

IsSpace(c) == c \in SpaceChars

\* String.prototype.toLowerCase on one character
LowerOf(c) ==
  IF IsUpperAZ(c) THEN LowerTable[c]
  ELSE IF c = "E'" THEN "e'"
  ELSE c

toLowerCase(s) == [i \in 1..Len(s) |-> LowerOf(s[i])]

(***************************************************************************)
(* String helpers                                                          *)
(***************************************************************************)
Undefined == <<"undefined">>

\* a value interpolated in a template literal: `${v}`
Interpolate(v) ==
  IF v = Undefined THEN <<"u","n","d","e","f","i","n","e","d">> ELSE v

\* the indices in 1..n that pass a test, in increasing order
IndicesWhere(n, Test(_)) == SelectSeq([i \in 1..n |-> i], Test)

\* the last index of the longest run of characters of a class that starts at p,
\* p - 1 when there is none
RunEnd(text, p, InClass(_)) ==
  LET stops == {q \in p..Len(text) : ~InClass(text[q])}
  IN IF stops = {} THEN Len(text)
     ELSE (CHOOSE q \in stops : \A r \in stops : q <= r) - 1

NotSpace(c) == ~IsSpace(c)

\* the maximal runs of characters that are not white space
WordsIn(s) ==
  LET IsStart(i) == NotSpace(s[i]) /\ (i = 1 \/ IsSpace(s[i-1]))
      starts == IndicesWhere(Len(s), IsStart)
  IN [k \in 1..Len(starts) |-> SubSeq(s, starts[k], RunEnd(s, starts[k], NotSpace))]

\* s.split(/\s+/): the pieces between runs of white space; a run at either end
\* of s (and the empty s) leaves an empty piece there
splitWs(s) ==
  (IF Len(s) = 0 \/ IsSpace(s[1]) THEN << <<>> >> ELSE <<>>)
  \o WordsIn(s)
  \o (IF Len(s) > 0 /\ IsSpace(s[Len(s)]) THEN << <<>> >> ELSE <<>>)

NonEmpty(w) == Len(w) > 0

\* s.split(/\s+/).filter(w => w.length > 0)
splitWords(s) == SelectSeq(splitWs(s), NonEmpty)

RECURSIVE join(_, _)
join(ws, sep) ==
  IF Len(ws) = 0 THEN <<>>
  ELSE IF Len(ws) = 1 THEN ws[1]
  ELSE ws[1] \o sep \o join(Tail(ws), sep)

\* hay.includes(needle)
includes(hay, needle) ==
  \E i \in 0..(Len(hay) - Len(needle)) : SubSeq(hay, i + 1, i + Len(needle)) = needle

\* !s?.trim(): s is undefined, empty or white space only
isBlank(s) == s = Undefined \/ \A i \in 1..Len(s) : IsSpace(s[i])

\* the matches of phrase in text from position i on, left to right, each search
\* resuming after the match before
RECURSIVE CountFrom(_, _, _)
CountFrom(text, phrase, i) ==
  LET hits == {j \in i..(Len(text) - Len(phrase) + 1) :
                 SubSeq(text, j, j + Len(phrase) - 1) = phrase}
  IN IF hits = {} THEN 0
     ELSE 1 + CountFrom(text, phrase, (CHOOSE j \in hits : \A k \in hits : j <= k) + Len(phrase))

\* the number of non-overlapping literal matches of phrase in text
countOccurrences(text, phrase) == CountFrom(text, phrase, 1)

Range(s) == {s[i] : i \in 1..Len(s)}

AbsDiff(a, b) == IF a >= b THEN a - b ELSE b - a

Min2(a, b) == IF a <= b THEN a ELSE b

Max2(a, b) == IF a >= b THEN a ELSE b

\* s[lo] + ... + s[hi]
RECURSIVE SumRange(_, _, _)
SumRange(s, lo, hi) ==
  IF lo > hi THEN 0
  ELSE IF lo = hi THEN s[lo]
  ELSE SumRange(s, lo, (lo + hi) \div 2) + SumRange(s, (lo + hi) \div 2 + 1, hi)

SumSeq(s) == SumRange(s, 1, Len(s))

\* the distinct elements of s in order of first occurrence (the key order of a Map
\* or a Set filled in sequence order)
Distinct(s) ==
  LET IsFirst(i) == \A j \in 1..(i-1) : s[j] # s[i]
      first == IndicesWhere(Len(s), IsFirst)
  IN [k \in 1..Len(first) |-> s[first[k]]]

\* the positions (0-based) at which w occurs in s
Positions0(s, w) ==
  LET IsAt(i) == s[i] = w
      at == IndicesWhere(Len(s), IsAt)
  IN [k \in 1..Len(at) |-> at[k] - 1]

\* the stable descending order of a list of keys, as a list of indices: an
\* index comes after those of greater key and after the earlier ones of equal key
SortPerm(keys, n) ==
  LET before == [i \in 1..n |->
                   Cardinality({j \in 1..n : keys[j] > keys[i] \/ (keys[j] = keys[i] /\ j < i)})]
  IN [r \in 1..n |-> CHOOSE i \in 1..n : before[i] = r - 1]

\* Array.prototype.sort((a, b) => Key(b) - Key(a)): descending by key, stable
SortDesc(s, Key(_)) ==
  LET keys == [i \in 1..Len(s) |-> Key(s[i])]
      perm == SortPerm(keys, Len(s))
  IN [i \in 1..Len(s) |-> s[perm[i]]]

\* s.slice(0, n)
Take(s, n) == SubSeq(s, 1, Min2(n, Len(s)))

(***************************************************************************)
(* Fixed-point arithmetic                                                  *)
(***************************************************************************)
Scale == 1000000

EntropyScale == 10000

\* Math.log(n) for n = 1..64 in units of 1/Scale
LnTable ==
  <<
     0, 693147, 1098612, 1386294, 1609438, 1791759, 1945910, 2079442,
     2197225, 2302585, 2397895, 2484907, 2564949, 2639057, 2708050, 2772589,
     2833213, 2890372, 2944439, 2995732, 3044522, 3091042, 3135494, 3178054,
     3218876, 3258097, 3295837, 3332205, 3367296, 3401197, 3433987, 3465736,
     3496508, 3526361, 3555348, 3583519, 3610918, 3637586, 3663562, 3688879,
     3713572, 3737670, 3761200, 3784190, 3806662, 3828641, 3850148, 3871201,
     3891820, 3912023, 3931826, 3951244, 3970292, 3988984, 4007333, 4025352,
     4043051, 4060443, 4077537, 4094345, 4110874, 4127134, 4143135, 4158883
  >>

\* Math.log2(n) for n = 1..256 in units of 1/EntropyScale
Log2Table ==
  <<
     0, 10000, 15850, 20000, 23219, 25850, 28074, 30000,
     31699, 33219, 34594, 35850, 37004, 38074, 39069, 40000,
     40875, 41699, 42479, 43219, 43923, 44594, 45236, 45850,
     46439, 47004, 47549, 48074, 48580, 49069, 49542, 50000,
     50444, 50875, 51293, 51699, 52095, 52479, 52854, 53219,
     53576, 53923, 54263, 54594, 54919, 55236, 55546, 55850,
     56147, 56439, 56724, 57004, 57279, 57549, 57814, 58074,
     58329, 58580, 58826, 59069, 59307, 59542, 59773, 60000,
     60224, 60444, 60661, 60875, 61085, 61293, 61497, 61699,
     61898, 62095, 62288, 62479, 62668, 62854, 63038, 63219,
     63399, 63576, 63750, 63923, 64094, 64263, 64429, 64594,
     64757, 64919, 65078, 65236, 65392, 65546, 65699, 65850,
     65999, 66147, 66294, 66439, 66582, 66724, 66865, 67004,
     67142, 67279, 67415, 67549, 67682, 67814, 67944, 68074,
     68202, 68329, 68455, 68580, 68704, 68826, 68948, 69069,
     69189, 69307, 69425, 69542, 69658, 69773, 69887, 70000,
     70112, 70224, 70334, 70444, 70553, 70661, 70768, 70875,
     70980, 71085, 71189, 71293, 71396, 71497, 71599, 71699,
     71799, 71898, 71997, 72095, 72192, 72288, 72384, 72479,
     72574, 72668, 72761, 72854, 72946, 73038, 73129, 73219,
     73309, 73399, 73487, 73576, 73663, 73750, 73837, 73923,
     74009, 74094, 74179, 74263, 74346, 74429, 74512, 74594,
     74676, 74757, 74838, 74919, 74998, 75078, 75157, 75236,
     75314, 75392, 75469, 75546, 75622, 75699, 75774, 75850,
     75925, 75999, 76073, 76147, 76221, 76294, 76366, 76439,
     76511, 76582, 76653, 76724, 76795, 76865, 76935, 77004,
     77074, 77142, 77211, 77279, 77347, 77415, 77482, 77549,
     77616, 77682, 77748, 77814, 77879, 77944, 78009, 78074,
     78138, 78202, 78265, 78329, 78392, 78455, 78517, 78580,
     78642, 78704, 78765, 78826, 78887, 78948, 79009, 79069,
     79129, 79189, 79248, 79307, 79366, 79425, 79484, 79542,
     79600, 79658, 79715, 79773, 79830, 79887, 79944, 80000
  >>

\* the entropy of a distribution given by its counts, in units of 1/EntropyScale:
\* -sum p*log2(p) = log2(total) - (sum v*log2(v)) / total
calculateEntropy(values) ==
  LET total == SumSeq(values)
      weighted == SumSeq([i \in 1..Len(values) |->
                    IF values[i] = 0 THEN 0 ELSE values[i] * Log2Table[values[i]]])
  IN IF total = 0 THEN 0
     ELSE (total * Log2Table[total] - weighted) \div total

Ratio(n, d) == [num |-> n, den |-> d]

\* a > b for two ratios with positive denominators
RatioGt(a, b) == a.num * b.den > b.num * a.den

(***************************************************************************)
(* Statistical language detection                                          *)
(***************************************************************************)
\* text.toLowerCase().replace(/[^\w\s]/g, ' ')
cleanTextOf(text) ==
  LET low == toLowerCase(text)
  IN [i \in 1..Len(low) |-> IF IsWordChar(low[i]) \/ IsSpace(low[i]) THEN low[i] ELSE " "]

\* (s.match(/[class]/g) || []).length
CountChars(s, class) == Cardinality({i \in 1..Len(s) : s[i] \in class})

\* (s.match(/[bcdfghjklmnpqrstvwxyz]{2,}/g) || []).length: the maximal runs of two
\* or more consonants
CountConsonantClusters(s) ==
  Cardinality({i \in 1..(Len(s) - 1) :
                 /\ s[i] \in ConsonantChars
                 /\ s[i + 1] \in ConsonantChars
                 /\ (i = 1 \/ s[i - 1] \notin ConsonantChars)})

\* the values of a Map that counts the elements of seq
CountsOf(seq) ==
  LET d == Distinct(seq)
  IN [k \in 1..Len(d) |-> Cardinality({i \in 1..Len(seq) : seq[i] = d[k]})]

calculateBigramEntropy(text) ==
  LET all == [i \in 1..(Len(text) - 1) |-> <<text[i], text[i + 1]>>]
      IsBigram(b) == IsLowerAZ(b[1]) /\ IsLowerAZ(b[2])
  IN calculateEntropy(CountsOf(SelectSeq(all, IsBigram)))

\* what the rules and the divisions give when the test for no words is left out
ProfileOfNoWords ==
  [language |-> "en", confidence |-> Ratio(3, 10), avgWordLength |-> Ratio(0, 0),
   vowelRatio |-> Ratio(0, 0), consonantClusters |-> 0]

UnknownProfile ==
  [language |-> "unknown", confidence |-> Ratio(0, 10), avgWordLength |-> Ratio(0, 1),
   vowelRatio |-> Ratio(0, 1), consonantClusters |-> 0]

\* the decision rules with base confidence 0.8 for "de"
LanguageRuleGermanEight(nWords, totalChars, vowels, consonantClusters, diacritics, entropy) ==
  IF totalChars > 6 * nWords /\ 10 * consonantClusters > nWords
  THEN [language |-> "de", tenths |-> 8]
  ELSE IF 100 * diacritics > 2 * totalChars /\ 10 * vowels > 4 * totalChars
  THEN IF 10 * totalChars < 55 * nWords
       THEN [language |-> "es", tenths |-> 6]
       ELSE [language |-> "fr", tenths |-> 6]
  ELSE IF 100 * diacritics > totalChars /\ entropy > 2 * EntropyScale
  THEN [language |-> "it", tenths |-> 5]
  ELSE [language |-> "en", tenths |-> 3]

\* the language and base confidence (in tenths) chosen by the decision rules
LanguageRule(nWords, totalChars, vowels, consonantClusters, diacritics, entropy) ==
  IF totalChars > 6 * nWords /\ 10 * consonantClusters > nWords
  THEN [language |-> "de", tenths |-> 7]
  ELSE IF 100 * diacritics > 2 * totalChars /\ 10 * vowels > 4 * totalChars
  THEN IF 10 * totalChars < 55 * nWords
       THEN [language |-> "es", tenths |-> 6]
       ELSE [language |-> "fr", tenths |-> 6]
  ELSE IF 100 * diacritics > totalChars /\ entropy > 2 * EntropyScale
  THEN [language |-> "it", tenths |-> 5]
  ELSE [language |-> "en", tenths |-> 3]

detectLanguageStatistically(text) ==
  LET cleanText == cleanTextOf(text)
      words == splitWords(cleanText)
      totalChars == SumSeq([i \in 1..Len(words) |-> Len(words[i])])
      vowels == CountChars(cleanText, VowelChars)
      consonantClusters == CountConsonantClusters(cleanText)
      diacritics == CountChars(cleanText, DiacriticChars)
      entropy == calculateEntropy(CountsOf([i \in 1..Len(words) |-> Len(words[i])]))
      rule == LanguageRule(Len(words), totalChars, vowels, consonantClusters,
                           diacritics, entropy)
      bigramEntropy == calculateBigramEntropy(cleanText)
      confidence == IF bigramEntropy > 4 * EntropyScale
                    THEN Min2(9, rule.tenths + 2) ELSE rule.tenths
  IN IF Len(words) = 0 THEN UnknownProfile
     ELSE [language |-> rule.language,
           confidence |-> Ratio(confidence, 10),
           avgWordLength |-> Ratio(totalChars, Len(words)),
           vowelRatio |-> Ratio(vowels, totalChars),
           consonantClusters |-> consonantClusters]

(***************************************************************************)
(* Statistical stop-word detection                                         *)
(***************************************************************************)
\* the fewest words of a sentence before the random draw is consulted
MinSentenceWords == 10

\* the longest sentence the model lets the random draws produce
MaxSentenceWords == 11

\* The outcomes of approximateSentences on n words, as lists of sentence lengths:
\* a sentence ends at the first successful draw once it holds MinSentenceWords
\* words, and the words left at the end form the last sentence.
RECURSIVE Segmentations(_)
Segmentations(n) ==
  IF n = 0 THEN {<<>>}
  ELSE (IF n <= MaxSentenceWords THEN {<<n>>} ELSE {})
       \cup UNION {{<<k>> \o rest : rest \in Segmentations(n - k)} :
                     k \in MinSentenceWords..Min2(MaxSentenceWords, n - 1)}

\* the sentences of words under one outcome of the draws
RECURSIVE approximateSentences(_, _)
approximateSentences(words, seg) ==
  IF Len(seg) = 0 THEN <<>>
  ELSE <<SubSeq(words, 1, seg[1])>>
       \o approximateSentences(SubSeq(words, seg[1] + 1, Len(words)), Tail(seg))

\* the loop body with the second test without its limit on the length
IsStopWordOfAnyLength(words, word, seg) ==
  LET freq == Cardinality({i \in 1..Len(words) : words[i] = word})
      sentences == approximateSentences(words, seg)
      sentenceAppearance ==
        Cardinality({k \in 1..Len(sentences) : word \in Range(sentences[k])})
  IN \/ (100 * freq > Len(words) /\ Len(word) <= 4)
     \/ 5 * sentenceAppearance > Len(sentences)

\* the loop body with "more than a quarter of the sentences" as its second test
IsStopWordInAQuarter(words, word, seg) ==
  LET freq == Cardinality({i \in 1..Len(words) : words[i] = word})
      sentences == approximateSentences(words, seg)
      sentenceAppearance ==
        Cardinality({k \in 1..Len(sentences) : word \in Range(sentences[k])})
  IN \/ (100 * freq > Len(words) /\ Len(word) <= 4)
     \/ (4 * sentenceAppearance > Len(sentences) /\ Len(word) <= 6)

\* one pass of the loop body for `word`; seg is the outcome of this pass's draws
IsStopWord(words, word, seg) ==
  LET freq == Cardinality({i \in 1..Len(words) : words[i] = word})
      sentences == approximateSentences(words, seg)
      sentenceAppearance ==
        Cardinality({k \in 1..Len(sentences) : word \in Range(sentences[k])})
  IN \/ (100 * freq > Len(words) /\ Len(word) <= 4)
     \/ (5 * sentenceAppearance > Len(sentences) /\ Len(word) <= 6)

\* the stop words in insertion order; segs[k] is the outcome of the draws made for
\* the k-th distinct word
identifyStopWordsStatistically(words, segs) ==
  LET keys == Distinct(words)
      hit == {k \in 1..Len(keys) : IsStopWord(words, keys[k], segs[k])}
      IsHit(w) == \E k \in hit : keys[k] = w
  IN SelectSeq(keys, IsHit)

(***************************************************************************)
(* TF-IDF                                                                  *)
(***************************************************************************)
calculatePositionalEntropy(positions, totalLength) ==
  LET bucketOf == [i \in 1..Len(positions) |-> Min2((10 * positions[i]) \div totalLength, 9)]
      buckets == [b \in 1..10 |-> Cardinality({i \in 1..Len(positions) : bucketOf[i] = b - 1})]
  IN calculateEntropy(buckets)

\* the classification with the entity test admitting a context diversity of one half
classifySemanticRoleAtHalf(word, freq, tfIdf, contextDiversity) ==
  IF 100 * tfIdf > Scale /\ freq < 5 /\ 2 * contextDiversity.num <= contextDiversity.den
  THEN "entity"
  ELSE IF 1000 * tfIdf > 5 * Scale /\ freq > 2
  THEN "content"
  ELSE IF 10 * contextDiversity.num > 7 * contextDiversity.den /\ freq > 1 /\ freq < 10
  THEN "modifier"
  ELSE "function"

classifySemanticRole(word, freq, tfIdf, contextDiversity) ==
  IF 100 * tfIdf > Scale /\ freq < 5 /\ 2 * contextDiversity.num < contextDiversity.den
  THEN "entity"
  ELSE IF 1000 * tfIdf > 5 * Scale /\ freq > 2
  THEN "content"
  ELSE IF 10 * contextDiversity.num > 7 * contextDiversity.den /\ freq > 1 /\ freq < 10
  THEN "modifier"
  ELSE "function"

\* tf * idf = (freq / totalWords) * Math.log(totalWords / freq), in units of 1/Scale
TfIdfOf(freq, totalWords) == (freq * (LnTable[totalWords] - LnTable[freq])) \div totalWords

TokenOf(contentWords, word) ==
  LET positions == Positions0(contentWords, word)
      freq == Len(positions)
      totalWords == Len(contentWords)
      tfIdf == TfIdfOf(freq, totalWords)
      contexts == {SubSeq(contentWords, Max2(0, positions[i] - 2) + 1,
                          Min2(totalWords, positions[i] + 3)) : i \in 1..freq}
      contextDiversity == Ratio(Cardinality(contexts), freq)
  IN [word |-> word,
      frequency |-> freq,
      positions |-> positions,
      tfIdf |-> tfIdf,
      entropy |-> calculatePositionalEntropy(positions, totalWords),
      contextDiversity |-> contextDiversity,
      semanticRole |-> classifySemanticRole(word, freq, tfIdf, contextDiversity)]

TfIdfKey(t) == t.tfIdf

\* the filter without its test of the length
contentWordsOfAnyLength(words, stopWords) ==
  LET Kept(w) == w \notin stopWords
  IN SelectSeq(words, Kept)

\* words.filter(word => !stopWords.has(word) && word.length > 1)
contentWordsOf(words, stopWords) ==
  LET Kept(w) == w \notin stopWords /\ Len(w) > 1
  IN SelectSeq(words, Kept)

\* calculateTFIDF without its final sort
calculateTFIDFUnsorted(words, stopWords) ==
  LET contentWords == contentWordsOf(words, stopWords)
      keys == Distinct(contentWords)
  IN [k \in 1..Len(keys) |-> TokenOf(contentWords, keys[k])]

\* stopWords is the set of stop words
calculateTFIDF(words, stopWords) ==
  LET contentWords == contentWordsOf(words, stopWords)
      keys == Distinct(contentWords)
      tokens == [k \in 1..Len(keys) |-> TokenOf(contentWords, keys[k])]
  IN SortDesc(tokens, TfIdfKey)

(***************************************************************************)
(* N-gram extraction                                                       *)
(***************************************************************************)
\* a coherence c is kept as the integer c * CoherenceDen: 1 - avgDistance / 10 with
\* one or three word pairs is a whole number of thirtieths
CoherenceDen == 30

\* a * b / Scale for two values in units of 1/Scale
MulScaled(a, b) == (a * (b \div 1000)) \div 1000 + (a * (b % 1000)) \div Scale

TokensNamed(tokens, word) ==
  LET Named(t) == t.word = word
  IN SelectSeq(tokens, Named)

\* the least |pos1 - pos2| over two non-empty position lists
MinDistance(positions1, positions2) ==
  LET ds == {AbsDiff(positions1[a], positions2[b]) :
               a \in 1..Len(positions1), b \in 1..Len(positions2)}
  IN CHOOSE d \in ds : \A e \in ds : d <= e

calculateCoherence(phraseWords, tokens) ==
  LET found == {i \in 1..Len(phraseWords) : Len(TokensNamed(tokens, phraseWords[i])) > 0}
      positionsOf == [i \in 1..Len(phraseWords) |->
                        TokensNamed(tokens, phraseWords[i])[1].positions]
      pairs == {pr \in (1..Len(phraseWords)) \X (1..Len(phraseWords)) : pr[1] < pr[2]}
      RECURSIVE Total(_)
      Total(P) == IF P = {} THEN 0
                  ELSE LET pr == CHOOSE x \in P : TRUE
                       IN MinDistance(positionsOf[pr[1]], positionsOf[pr[2]]) + Total(P \ {pr})
      pairCount == Cardinality(pairs)
  IN IF Cardinality(found) # Len(phraseWords) THEN 0
     ELSE IF pairCount = 0 THEN 0
     ELSE Max2(0, CoherenceDen - (CoherenceDen * Total(pairs)) \div (10 * pairCount))

calculateInformationValue(phrase, tokens) ==
  LET words == splitWs(phrase)
      IsToken(w) == Len(TokensNamed(tokens, w)) > 0
      known == SelectSeq(words, IsToken)
      avgTfIdf == SumSeq([i \in 1..Len(known) |-> TokensNamed(tokens, known[i])[1].tfIdf])
                    \div Len(known)
      lengthBonus == LnTable[Len(words) + 1]
  IN IF Len(known) = 0 THEN 0 ELSE MulScaled(avgTfIdf, lengthBonus)

\* the word indices (0-based) of text.split(/\s+/) at which the phrase starts
findPositions(text, phrase) ==
  LET words == splitWs(text)
      phraseWords == splitWs(phrase)
      n == Len(phraseWords)
      IsStart(i) == join(SubSeq(words, i, i + n - 1), <<" ">>) = phrase
  IN Positions0([i \in 1..Max2(0, Len(words) - n + 1) |-> IsStart(i)], TRUE)

\* the n-gram of the given words, or no n-gram when it does not occur in the text
NGramOf(phraseWords, tokens, lowerText) ==
  LET phrase == join(phraseWords, <<" ">>)
      freq == countOccurrences(lowerText, phrase)
  IN IF freq > 0
     THEN <<[phrase |-> phrase,
             frequency |-> freq,
             coherence |-> calculateCoherence(phraseWords, tokens),
             informationValue |-> calculateInformationValue(phrase, tokens),
             positions |-> findPositions(lowerText, phrase)]>>
     ELSE <<>>

RECURSIVE Concat(_)
Concat(ss) == IF Len(ss) = 0 THEN <<>> ELSE ss[1] \o Concat(Tail(ss))

IsCoherent(ng) == 10 * ng.coherence > CoherenceDen

NGramKey(ng) == ng.informationValue * ng.coherence

\* every n-gram built, before filtering and ranking
candidateNGrams(tokens, originalText) ==
  LET words == [i \in 1..Len(tokens) |-> tokens[i].word]
      lowerText == toLowerCase(originalText)
      bigrams == Concat([i \in 1..Max2(0, Len(words) - 1) |->
                   NGramOf(<<words[i], words[i + 1]>>, tokens, lowerText)])
      trigrams == Concat([i \in 1..Max2(0, Len(words) - 2) |->
                    NGramOf(<<words[i], words[i + 1], words[i + 2]>>, tokens, lowerText)])
  IN bigrams \o trigrams

\* extractNGrams without its coherence filter
extractNGramsUnfiltered(tokens, originalText) ==
  Take(SortDesc(candidateNGrams(tokens, originalText), NGramKey), 20)

extractNGrams(tokens, originalText) ==
  Take(SortDesc(SelectSeq(candidateNGrams(tokens, originalText), IsCoherent), NGramKey), 20)

(***************************************************************************)
(* Semantic clustering                                                     *)
(***************************************************************************)
allTermsOf(tokens, ngrams) ==
  [i \in 1..Len(tokens) |->
     [term |-> tokens[i].word, score |-> tokens[i].tfIdf, role |-> tokens[i].semanticRole]]
  \o [i \in 1..Len(ngrams) |->
     [term |-> ngrams[i].phrase, score |-> ngrams[i].informationValue, role |-> "phrase"]]

getTermPositions(term, tokens, ngrams) ==
  LET IsPhrase(ng) == ng.phrase = term
      named == TokensNamed(tokens, term)
      phrased == SelectSeq(ngrams, IsPhrase)
  IN IF Len(named) > 0 THEN named[1].positions
     ELSE IF Len(phrased) > 0 THEN phrased[1].positions
     ELSE <<>>

\* the similarity that prefers positional proximity to the overlap of words
calculateTermSimilarityByPosition(term1, term2, tokens, ngrams) ==
  LET words1 == splitWs(term1)
      words2 == splitWs(term2)
      InWords2(w) == w \in Range(words2)
      intersection == SelectSeq(words1, InWords2)
      union == Range(words1) \cup Range(words2)
      positions1 == getTermPositions(term1, tokens, ngrams)
      positions2 == getTermPositions(term2, tokens, ngrams)
      minDistance == MinDistance(positions1, positions2)
  IN IF Len(positions1) > 0 /\ Len(positions2) > 0 /\ minDistance < 5
     THEN Ratio(5 - minDistance, 5)
     ELSE Ratio(Len(intersection), Cardinality(union))

calculateTermSimilarity(term1, term2, tokens, ngrams) ==
  LET words1 == splitWs(term1)
      words2 == splitWs(term2)
      InWords2(w) == w \in Range(words2)
      intersection == SelectSeq(words1, InWords2)
      union == Range(words1) \cup Range(words2)
      positions1 == getTermPositions(term1, tokens, ngrams)
      positions2 == getTermPositions(term2, tokens, ngrams)
      minDistance == MinDistance(positions1, positions2)
  IN IF Len(intersection) > 0 THEN Ratio(Len(intersection), Cardinality(union))
     ELSE IF Len(positions1) = 0 \/ Len(positions2) = 0 THEN Ratio(0, 1)
     ELSE IF minDistance < 5 THEN Ratio(5 - minDistance, 5)
     ELSE Ratio(0, 1)

inferCategory(term, role, allTerms) ==
  LET SameTerm(t) == t.term = term
      found == SelectSeq(allTerms, SameTerm)
      score == IF Len(found) > 0 THEN found[1].score ELSE 0
  IN IF \E i \in 1..Len(term) : term[i] \in Digits \cup CurrencyChars
     THEN "quantitative"
     ELSE IF Len(term) > 0 /\ IsUpperAZ(term[1]) /\ role = "entity"
     THEN "entity"
     ELSE IF role = "content" /\ Len(term) > 4 /\ 100 * score > Scale
     THEN "action"
     ELSE IF role = "modifier"
     THEN "descriptor"
     ELSE IF " " \in Range(term) /\ role = "phrase"
     THEN "concept"
     ELSE "general"

\* a threshold above one third
IsSimilarAboveAThird(similarity) == 3 * similarity.num > similarity.den

\* similarity > 0.3
IsSimilar(similarity) == 10 * similarity.num > 3 * similarity.den

NoCluster == [centroid |-> Undefined]

\* The local variables of clusterSemantically: the clusters pushed so far, the
\* processed set, the cluster being built (NoCluster between two iterations of the
\* outer loop), and the positions of the outer (term) and inner (other) loops.
ClusteringStart ==
  [clusters |-> <<>>, processed |-> {}, cluster |-> NoCluster, term |-> 1, other |-> 0]

\* the outer loop meets a processed term: continue
CanSkipTerm(st, allTerms) ==
  /\ st.cluster = NoCluster
  /\ st.term <= Len(allTerms)
  /\ allTerms[st.term].term \in st.processed

SkipTerm(st) == [st EXCEPT !.term = st.term + 1]

\* the outer loop meets an unprocessed term: a cluster is opened for it
\* the outer loop without the test processed.has(term.term)
CanOpenClusterForAnyTerm(st, allTerms) ==
  /\ st.cluster = NoCluster
  /\ st.term <= Len(allTerms)

CanOpenCluster(st, allTerms) ==
  /\ st.cluster = NoCluster
  /\ st.term <= Len(allTerms)
  /\ allTerms[st.term].term \notin st.processed

\* a cluster opened with an empty member list
OpenClusterWithoutCentroid(st, allTerms) ==
  LET term == allTerms[st.term]
  IN [st EXCEPT !.cluster = [centroid |-> term.term,
                             members |-> <<>>,
                             coherenceScore |-> term.score,
                             category |-> inferCategory(term.term, term.role, allTerms)],
                !.other = 1]

OpenCluster(st, allTerms) ==
  LET term == allTerms[st.term]
  IN [st EXCEPT !.cluster = [centroid |-> term.term,
                             members |-> <<term.term>>,
                             coherenceScore |-> term.score,
                             category |-> inferCategory(term.term, term.role, allTerms)],
                !.other = 1]

\* one iteration of the inner loop
CanScanOther(st, allTerms) == st.cluster # NoCluster /\ st.other <= Len(allTerms)

\* the inner loop without the test processed.has(other.term)
ScanOtherNoProcessedCheck(st, allTerms, tokens, ngrams) ==
  LET term == allTerms[st.term]
      other == allTerms[st.other]
      similarity == calculateTermSimilarity(term.term, other.term, tokens, ngrams)
  IN IF other.term = term.term
     THEN [st EXCEPT !.other = st.other + 1]
     ELSE IF IsSimilar(similarity)
     THEN [st EXCEPT !.cluster.members = Append(st.cluster.members, other.term),
                     !.cluster.coherenceScore =
                        st.cluster.coherenceScore
                          + (other.score * similarity.num) \div similarity.den,
                     !.processed = st.processed \cup {other.term},
                     !.other = st.other + 1]
     ELSE [st EXCEPT !.other = st.other + 1]

ScanOther(st, allTerms, tokens, ngrams) ==
  LET term == allTerms[st.term]
      other == allTerms[st.other]
      similarity == calculateTermSimilarity(term.term, other.term, tokens, ngrams)
  IN IF other.term = term.term \/ other.term \in st.processed
     THEN [st EXCEPT !.other = st.other + 1]
     ELSE IF IsSimilar(similarity)
     THEN [st EXCEPT !.cluster.members = Append(st.cluster.members, other.term),
                     !.cluster.coherenceScore =
                        st.cluster.coherenceScore
                          + (other.score * similarity.num) \div similarity.den,
                     !.processed = st.processed \cup {other.term},
                     !.other = st.other + 1]
     ELSE [st EXCEPT !.other = st.other + 1]

\* the inner loop is over: the term is processed and its cluster pushed
CanCloseCluster(st, allTerms) == st.cluster # NoCluster /\ st.other > Len(allTerms)

CloseCluster(st, allTerms) ==
  [st EXCEPT !.processed = st.processed \cup {allTerms[st.term].term},
             !.clusters = Append(st.clusters, st.cluster),
             !.cluster = NoCluster,
             !.term = st.term + 1]

ClusteringDone(st, allTerms) == st.cluster = NoCluster /\ st.term > Len(allTerms)

ClusteringStep(st, allTerms, tokens, ngrams) ==
  IF CanSkipTerm(st, allTerms) THEN SkipTerm(st)
  ELSE IF CanOpenCluster(st, allTerms) THEN OpenCluster(st, allTerms)
  ELSE IF CanScanOther(st, allTerms) THEN ScanOther(st, allTerms, tokens, ngrams)
  ELSE CloseCluster(st, allTerms)

RECURSIVE RunClustering(_, _, _, _)
RunClustering(st, allTerms, tokens, ngrams) ==
  IF ClusteringDone(st, allTerms) THEN st
  ELSE RunClustering(ClusteringStep(st, allTerms, tokens, ngrams), allTerms, tokens, ngrams)

CoherenceKey(c) == c.coherenceScore

\* the first ten clusters in the order in which they were built
rankClustersUnsorted(clusters) == Take(clusters, 10)

\* clusters.sort((a, b) => b.coherenceScore - a.coherenceScore).slice(0, 10)
rankClusters(clusters) == Take(SortDesc(clusters, CoherenceKey), 10)

clusterSemantically(tokens, ngrams) ==
  rankClusters(RunClustering(ClusteringStart, allTermsOf(tokens, ngrams), tokens, ngrams).clusters)

(***************************************************************************)
(* Query type classification                                               *)
(***************************************************************************)
\* what one cluster adds to the four scores, in units of 1/(2 * Scale):
\* score * 2, score * 1.5, score, score, score * 0.5
\* the weights with action clusters counted twice, like quantitative ones
CategoryWeightActionTwice(category) ==
  CASE category = "quantitative" -> [type |-> "commercial", twice |-> 4]
    [] category = "action" -> [type |-> "transactional", twice |-> 4]
    [] category = "entity" -> [type |-> "navigational", twice |-> 2]
    [] category \in {"concept", "descriptor"} -> [type |-> "informational", twice |-> 2]
    [] OTHER -> [type |-> "informational", twice |-> 1]

CategoryWeight(category) ==
  CASE category = "quantitative" -> [type |-> "commercial", twice |-> 4]
    [] category = "action" -> [type |-> "transactional", twice |-> 3]
    [] category = "entity" -> [type |-> "navigational", twice |-> 2]
    [] category \in {"concept", "descriptor"} -> [type |-> "informational", twice |-> 2]
    [] OTHER -> [type |-> "informational", twice |-> 1]

QueryTypes == <<"commercial", "transactional", "navigational", "informational">>

\* categoryScores after the loop over the clusters
categoryScoresOf(clusters) ==
  [k \in 1..4 |->
     SumSeq([i \in 1..Len(clusters) |->
               IF CategoryWeight(clusters[i].category).type = QueryTypes[k]
               THEN CategoryWeight(clusters[i].category).twice * clusters[i].coherenceScore
               ELSE 0])]

\* the reduction with >= in place of >: the last of the best types wins
RECURSIVE ReduceMaxLast(_, _, _)
ReduceMaxLast(scores, k, max) ==
  IF k > Len(scores) THEN max
  ELSE ReduceMaxLast(scores, k + 1,
                     IF scores[k] >= max.score
                     THEN [category |-> QueryTypes[k], score |-> scores[k]]
                     ELSE max)

\* Object.entries(categoryScores).reduce((max, [cat, score]) =>
\*   score > max.score ? {category: cat, score} : max, {category: 'informational', score: 0})
RECURSIVE ReduceMax(_, _, _)
ReduceMax(scores, k, max) ==
  IF k > Len(scores) THEN max
  ELSE ReduceMax(scores, k + 1,
                 IF scores[k] > max.score
                 THEN [category |-> QueryTypes[k], score |-> scores[k]]
                 ELSE max)

classifyQueryTypeStatistically(clusters) ==
  ReduceMax(categoryScoresOf(clusters), 1, [category |-> "informational", score |-> 0]).category

(***************************************************************************)
(* Entity extraction                                                       *)
(***************************************************************************)
\* [A-ZÀ-Ý]
IsUpperClass(c) == IsUpperAZ(c) \/ c = "E'"

\* [a-zà-ÿ]
IsLowerClass(c) == IsLowerAZ(c) \/ c \in DiacriticChars

\* \b in front of position i: exactly one of the two neighbours is a \w character
AtWordBoundary(text, i) ==
  LET before == i > 1 /\ IsWordChar(text[i-1])
      after == i <= Len(text) /\ IsWordChar(text[i])
  IN before # after

\* The matcher is greedy and backtracks: each function tries the longest extent
\* first and returns the last index of the first match that succeeds, 0 for none.
RECURSIVE CapitalizedEnd(_, _), CapitalizedGroupEnd(_, _, _), CapitalizedWordEnd(_, _, _)
\* (?:\s+[A-ZÀ-Ý][a-zà-ÿ]+)*\b with the next character at p
CapitalizedEnd(text, p) ==
  LET more == CapitalizedGroupEnd(text, p, RunEnd(text, p, IsSpace))
  IN IF more > 0 THEN more
     ELSE IF AtWordBoundary(text, p) THEN p - 1 ELSE 0

\* one more word after the white space text[p..w]
CapitalizedGroupEnd(text, p, w) ==
  IF w < p THEN 0
  ELSE LET r == IF w + 1 <= Len(text) /\ IsUpperClass(text[w+1])
                THEN CapitalizedWordEnd(text, w + 2, RunEnd(text, w + 2, IsLowerClass))
                ELSE 0
       IN IF r > 0 THEN r ELSE CapitalizedGroupEnd(text, p, w - 1)

\* [a-zà-ÿ]+ as text[p..q], then the rest
CapitalizedWordEnd(text, p, q) ==
  IF q < p THEN 0
  ELSE LET r == CapitalizedEnd(text, q + 1)
       IN IF r > 0 THEN r ELSE CapitalizedWordEnd(text, p, q - 1)

\* the last index of the match that starts at i, 0 when there is none
CapitalizedMatchEnd(text, i) ==
  IF AtWordBoundary(text, i) /\ IsUpperClass(text[i])
  THEN CapitalizedWordEnd(text, i + 1, RunEnd(text, i + 1, IsLowerClass))
  ELSE 0

\* text.match(/\b[A-ZÀ-Ý][a-zà-ÿ]+(?:\s+[A-ZÀ-Ý][a-zà-ÿ]+)*\b/g) from position i on
RECURSIVE capitalizedSequences(_, _)
capitalizedSequences(text, i) ==
  LET starts == {j \in i..Len(text) : CapitalizedMatchEnd(text, j) > 0}
  IN IF starts = {} THEN <<>>
     ELSE LET j == CHOOSE m \in starts : \A n \in starts : m <= n
              e == CapitalizedMatchEnd(text, j)
          IN <<SubSeq(text, j, e)>> \o capitalizedSequences(text, e + 1)

IsDigit(c) == c \in Digits

\* [%€$£¥₹]?\b with the next character at p
NumberTail(text, p) ==
  IF p <= Len(text) /\ text[p] \in CurrencyChars /\ AtWordBoundary(text, p + 1) THEN p
  ELSE IF AtWordBoundary(text, p) THEN p - 1 ELSE 0

RECURSIVE NumberSpaceEnd(_, _, _), NumberDigitsEnd(_, _, _)
\* \s* as text[p..w], then the rest
NumberSpaceEnd(text, p, w) ==
  LET r == NumberTail(text, w + 1)
  IN IF r > 0 THEN r
     ELSE IF w < p THEN 0 ELSE NumberSpaceEnd(text, p, w - 1)

\* \d{1,} as text[i..d], then the rest; the texts have neither '.' nor ',', so
\* the optional group ([.,]\d+)? matches nothing
NumberDigitsEnd(text, i, d) ==
  IF d < i THEN 0
  ELSE LET r == NumberSpaceEnd(text, d + 1, RunEnd(text, d + 1, IsSpace))
       IN IF r > 0 THEN r ELSE NumberDigitsEnd(text, i, d - 1)

\* the last index of the match that starts at i, 0 when there is none
NumberMatchEnd(text, i) ==
  IF AtWordBoundary(text, i) /\ IsDigit(text[i])
  THEN NumberDigitsEnd(text, i, RunEnd(text, i, IsDigit))
  ELSE 0

\* text.match(/\b\d{1,}([.,]\d+)?\s*[%€$£¥₹]?\b/g) from position i on
RECURSIVE numbers(_, _)
numbers(text, i) ==
  LET starts == {j \in i..Len(text) : NumberMatchEnd(text, j) > 0}
  IN IF starts = {} THEN <<>>
     ELSE LET j == CHOOSE m \in starts : \A n \in starts : m <= n
              e == NumberMatchEnd(text, j)
          IN <<SubSeq(text, j, e)>> \o numbers(text, e + 1)

\* [\/\-\.]
IsDateSeparator(c) == c \in {"/", "-", "."}

\* the numbers of digits of the three groups of \d{1,2}, \d{1,2}, \d{2,4} in the
\* order in which the greedy matcher tries them
DateShapes ==
  <<<<2, 2, 4>>, <<2, 2, 3>>, <<2, 2, 2>>, <<2, 1, 4>>, <<2, 1, 3>>, <<2, 1, 2>>,
    <<1, 2, 4>>, <<1, 2, 3>>, <<1, 2, 2>>, <<1, 1, 4>>, <<1, 1, 3>>, <<1, 1, 2>>>>

\* text[p..p+n-1] are n digits
DigitsAt(text, p, n) == p + n - 1 <= Len(text) /\ \A q \in p..(p + n - 1) : IsDigit(text[q])

\* the last index of the date of this shape that starts at i, 0 when there is none
DateShapeEnd(text, i, shape) ==
  LET s1 == i + shape[1]
      s2 == s1 + 1 + shape[2]
      e == s2 + shape[3]
  IN IF /\ DigitsAt(text, i, shape[1])
        /\ s1 <= Len(text) /\ IsDateSeparator(text[s1])
        /\ DigitsAt(text, s1 + 1, shape[2])
        /\ s2 <= Len(text) /\ IsDateSeparator(text[s2])
        /\ DigitsAt(text, s2 + 1, shape[3])
        /\ AtWordBoundary(text, e + 1)
     THEN e ELSE 0

\* the last index of the match that starts at i, 0 when there is none
DateMatchEnd(text, i) ==
  LET fits == {k \in 1..Len(DateShapes) : DateShapeEnd(text, i, DateShapes[k]) > 0}
  IN IF AtWordBoundary(text, i) /\ fits # {}
     THEN DateShapeEnd(text, i, DateShapes[CHOOSE k \in fits : \A m \in fits : k <= m])
     ELSE 0

\* text.match(/\b\d{1,2}[\/\-\.]\d{1,2}[\/\-\.]\d{2,4}\b/g) from position i on
RECURSIVE dates(_, _)
dates(text, i) ==
  LET starts == {j \in i..Len(text) : DateMatchEnd(text, j) > 0}
  IN IF starts = {} THEN <<>>
     ELSE LET j == CHOOSE m \in starts : \A n \in starts : m <= n
              e == DateMatchEnd(text, j)
          IN <<SubSeq(text, j, e)>> \o dates(text, e + 1)

\* text[p..] starts with the characters of lit
StartsWith(text, p, lit) ==
  p + Len(lit) - 1 <= Len(text) /\ SubSeq(text, p, p + Len(lit) - 1) = lit

\* the last index of the match of https?:\/\/[^\s]+ that starts at i, 0 when
\* there is none
UrlMatchEnd(text, i) ==
  LET rest == IF StartsWith(text, i, <<"h","t","t","p","s",":","/","/">>) THEN i + 8
              ELSE IF StartsWith(text, i, <<"h","t","t","p",":","/","/">>) THEN i + 7
              ELSE 0
  IN IF rest > 0 /\ rest <= Len(text) /\ NotSpace(text[rest])
     THEN RunEnd(text, rest, NotSpace) ELSE 0

\* text.match(/https?:\/\/[^\s]+/g) from position i on
RECURSIVE urls(_, _)
urls(text, i) ==
  LET starts == {j \in i..Len(text) : UrlMatchEnd(text, j) > 0}
  IN IF starts = {} THEN <<>>
     ELSE LET j == CHOOSE m \in starts : \A n \in starts : m <= n
              e == UrlMatchEnd(text, j)
          IN <<SubSeq(text, j, e)>> \o urls(text, e + 1)

\* the entities without the final slice(0, 10)
extractEntitiesUncut(text) ==
  Distinct(Take(capitalizedSequences(text, 1), 5) \o Take(numbers(text, 1), 3)
           \o dates(text, 1) \o urls(text, 1))

\* The e-mail pattern needs '@' and '.', which are not in the alphabet: over it
\* the pattern matches nothing.
extractEntitiesStatistically(text) ==
  Take(Distinct(Take(capitalizedSequences(text, 1), 5) \o Take(numbers(text, 1), 3)
                \o dates(text, 1) \o urls(text, 1)), 10)

(***************************************************************************)
(* The main analysis function                                              *)
(***************************************************************************)
\* `${title} ${metaDescription} ${bodyText}`
combinedTextOf(title, metaDescription, bodyText) ==
  Interpolate(title) \o <<" ">> \o Interpolate(metaDescription) \o <<" ">> \o Interpolate(bodyText)

\* a string used as a condition: neither undefined nor empty
Truthy(s) == s # Undefined /\ Len(s) > 0

\* the caller's language with the confidence and the features of the detection
languageProfileOfDetection(combinedText, preferredLanguage) ==
  IF Truthy(preferredLanguage)
  THEN [detectLanguageStatistically(combinedText) EXCEPT !.language = preferredLanguage]
  ELSE detectLanguageStatistically(combinedText)

languageProfileOf(combinedText, preferredLanguage) ==
  IF Truthy(preferredLanguage)
  THEN [language |-> preferredLanguage, confidence |-> Ratio(10, 10),
        avgWordLength |-> Ratio(0, 1), vowelRatio |-> Ratio(0, 1), consonantClusters |-> 0]
  ELSE detectLanguageStatistically(combinedText)

\* the words of the text as written, capitals kept
wordsOfOriginalCase(combinedText) == splitWords(combinedText)

\* combinedText.toLowerCase().split(/\s+/).filter(w => w.length > 0)
wordsOf(combinedText) == splitWords(toLowerCase(combinedText))

\* the selection without its last resort, the lowercased title
selectMainQueryNoTitle(title, tokens, ngrams) ==
  LET lowerTitle == toLowerCase(title)
      InTitleN(ng) == includes(lowerTitle, ng.phrase)
      InTitleT(t) == includes(lowerTitle, t.word)
      titleNgrams == SelectSeq(ngrams, InTitleN)
      titleTokens == SelectSeq(tokens, InTitleT)
  IN IF Len(titleNgrams) > 0 THEN titleNgrams[1].phrase
     ELSE IF Len(ngrams) > 0 THEN ngrams[1].phrase
     ELSE IF Len(titleTokens) > 0 THEN titleTokens[1].word
     ELSE IF Len(tokens) > 0 /\ Len(tokens[1].word) > 0 THEN tokens[1].word
     ELSE <<>>

\* the selection that takes the top phrase whether or not the title holds it
selectMainQueryTopPhrase(title, tokens, ngrams) ==
  LET lowerTitle == toLowerCase(title)
      InTitleT(t) == includes(lowerTitle, t.word)
      titleTokens == SelectSeq(tokens, InTitleT)
  IN IF Len(ngrams) > 0 THEN ngrams[1].phrase
     ELSE IF Len(titleTokens) > 0 THEN titleTokens[1].word
     ELSE IF Len(tokens) > 0 /\ Len(tokens[1].word) > 0 THEN tokens[1].word
     ELSE lowerTitle

\* the selection that falls back on the title before the top token
selectMainQueryTitleBeforeToken(title, tokens, ngrams) ==
  LET lowerTitle == toLowerCase(title)
      InTitleN(ng) == includes(lowerTitle, ng.phrase)
      InTitleT(t) == includes(lowerTitle, t.word)
      titleNgrams == SelectSeq(ngrams, InTitleN)
      titleTokens == SelectSeq(tokens, InTitleT)
  IN IF Len(titleNgrams) > 0 THEN titleNgrams[1].phrase
     ELSE IF Len(ngrams) > 0 THEN ngrams[1].phrase
     ELSE IF Len(titleTokens) > 0 THEN titleTokens[1].word
     ELSE lowerTitle

selectMainQuery(title, tokens, ngrams) ==
  LET lowerTitle == toLowerCase(title)
      InTitleN(ng) == includes(lowerTitle, ng.phrase)
      InTitleT(t) == includes(lowerTitle, t.word)
      titleNgrams == SelectSeq(ngrams, InTitleN)
      titleTokens == SelectSeq(tokens, InTitleT)
  IN IF Len(titleNgrams) > 0 THEN titleNgrams[1].phrase
     ELSE IF Len(ngrams) > 0 THEN ngrams[1].phrase
     ELSE IF Len(titleTokens) > 0 THEN titleTokens[1].word
     ELSE IF Len(tokens) > 0 /\ Len(tokens[1].word) > 0 THEN tokens[1].word
     ELSE lowerTitle

\* the confidence without the factor 10
confidenceOfUnscaled(clusters, ngrams) ==
  LET topClusterScore == IF Len(clusters) > 0 THEN clusters[1].coherenceScore ELSE 0
      topNgramScore == IF Len(ngrams) > 0 THEN ngrams[1].informationValue ELSE 0
  IN Min2(100, (topClusterScore + topNgramScore + Scale \div 2) \div Scale)

\* Math.min(100, Math.round((topClusterScore + topNgramScore) * 10))
confidenceOf(clusters, ngrams) ==
  LET topClusterScore == IF Len(clusters) > 0 THEN clusters[1].coherenceScore ELSE 0
      topNgramScore == IF Len(ngrams) > 0 THEN ngrams[1].informationValue ELSE 0
  IN Min2(100, ((topClusterScore + topNgramScore) * 10 + Scale \div 2) \div Scale)

\* the metrics with vocabularyRichness over the words the stop-word filter kept
nlpMetricsOverKeptWords(words, tokens, clusters) ==
  [totalTokens |-> Len(tokens),
   avgTfIdf |-> Ratio(SumSeq([i \in 1..Len(tokens) |-> tokens[i].tfIdf]), Len(tokens)),
   vocabularyRichness |->
     Ratio(Len(tokens), SumSeq([i \in 1..Len(tokens) |-> tokens[i].frequency])),
   semanticCohesion |->
     Ratio(SumSeq([i \in 1..Len(clusters) |-> clusters[i].coherenceScore]), Len(clusters))]

\* a ratio whose denominator is 0 is the NaN of 0 / 0
nlpMetricsOf(words, tokens, clusters) ==
  [totalTokens |-> Len(tokens),
   avgTfIdf |-> Ratio(SumSeq([i \in 1..Len(tokens) |-> tokens[i].tfIdf]), Len(tokens)),
   vocabularyRichness |-> Ratio(Len(tokens), Len(words)),
   semanticCohesion |->
     Ratio(SumSeq([i \in 1..Len(clusters) |-> clusters[i].coherenceScore]), Len(clusters))]

\* the object analyze returns, from the values of its local variables
analysisResult(title, combinedText, languageProfile, words, stopWords, tokens, ngrams, clusters, queryType) ==
  [mainQuery |-> selectMainQuery(title, tokens, ngrams),
   queryType |-> queryType,
   confidence |-> confidenceOf(clusters, ngrams),
   language |-> languageProfile.language,
   languageConfidence |-> languageProfile.confidence,
   keyphrases |-> [i \in 1..Min2(5, Len(ngrams)) |-> ngrams[i].phrase],
   entities |-> extractEntitiesStatistically(combinedText),
   semanticClusters |-> Take(clusters, 5),
   tokens |-> Take(tokens, 10),
   stopWordsIdentified |-> Take(stopWords, 10),
   nlpMetrics |-> nlpMetricsOf(words, tokens, clusters)]

\* analyze from step 3 on, as a function of its arguments and of the stop words
\* that step 2 identified
analyzeWith(title, metaDescription, bodyText, preferredLanguage, stopWords) ==
  LET combinedText == combinedTextOf(title, metaDescription, bodyText)
      languageProfile == languageProfileOf(combinedText, preferredLanguage)
      words == wordsOf(combinedText)
      tokens == calculateTFIDF(words, Range(stopWords))
      ngrams == extractNGrams(tokens, combinedText)
      clusters == clusterSemantically(tokens, ngrams)
      queryType == classifyQueryTypeStatistically(clusters)
  IN analysisResult(title, combinedText, languageProfile, words, stopWords, tokens, ngrams,
                    clusters, queryType)

\* analyze as a function of its arguments and of the outcomes of its random draws
analyze(title, metaDescription, bodyText, preferredLanguage, segs) ==
  analyzeWith(title, metaDescription, bodyText, preferredLanguage,
              identifyStopWordsStatistically(
                wordsOf(combinedTextOf(title, metaDescription, bodyText)), segs))

(***************************************************************************)
(* extractQueryPureNLP and the handlers in front of it                     *)
(***************************************************************************)
\* the argument object that is missing altogether (params.arguments undefined)
NoArguments == [missing |-> TRUE]

HasArguments(a) == "missing" \notin DOMAIN a

\* Math.round(r * unit) for a ratio r; -1 stands for the NaN of 0 / 0
RoundRatio(r, unit) ==
  IF r.den = 0 THEN -1 ELSE (2 * r.num * unit + r.den) \div (2 * r.den)

\* combinedText.match(queryRegex): the matches of an escaped literal under the
\* flags g and i; the empty pattern matches before every character and at the end
queryMatchesOf(text, query) ==
  IF Len(query) = 0 THEN Len(text) + 1
  ELSE countOccurrences(toLowerCase(text), toLowerCase(query))

\* the object extractQueryPureNLP returns; fractions are kept as the integers
\* that Math.round and toFixed produce before the final division
queryResultOf(a, analysis, now) ==
  LET text == combinedTextOf(a.title, a.metaDescription, a.bodyText)
      queryMatches == queryMatchesOf(text, analysis.mainQuery)
      totalWords == Len(splitWs(text))
  IN [name |-> analysis.mainQuery,
      queryType |-> analysis.queryType,
      language |-> analysis.language,
      queryScore |-> analysis.confidence,
      alternativeQueries |-> analysis.keyphrases,
      relatedEntities |-> analysis.entities,
      semanticClusters |->
        [i \in 1..Len(analysis.semanticClusters) |->
           [category |-> analysis.semanticClusters[i].category,
            terms |-> analysis.semanticClusters[i].members,
            relevance |-> RoundRatio(Ratio(analysis.semanticClusters[i].coherenceScore, Scale), 100)]],
      frequency |-> queryMatches,
      density |-> RoundRatio(Ratio(queryMatches, totalWords), 10000),
      languageConfidence |-> RoundRatio(analysis.languageConfidence, 100),
      stopWordsDetected |-> analysis.stopWordsIdentified,
      vocabularyRichness |-> RoundRatio(analysis.nlpMetrics.vocabularyRichness, 100),
      semanticCohesion |->
        RoundRatio(Ratio(analysis.nlpMetrics.semanticCohesion.num,
                         analysis.nlpMetrics.semanticCohesion.den * Scale), 100),
      topTokens |->
        [i \in 1..Len(analysis.tokens) |->
           [name |-> analysis.tokens[i].word,
            tfIdf |-> RoundRatio(Ratio(analysis.tokens[i].tfIdf, Scale), 1000),
            semanticRole |-> analysis.tokens[i].semanticRole]],
      extractedFrom |-> IF Truthy(a.url) THEN a.url ELSE <<"provided content">>,
      dateCreated |-> now]

\* the check of extractQueryPureNLP on the title alone
extractQueryRejectsTitleOnly(a) ==
  \/ ~HasArguments(a)
  \/ isBlank(a.title)

\* if (!title?.trim() || !bodyText?.trim()) throw; destructuring a missing
\* argument object throws before that
extractQueryRejects(a) ==
  \/ ~HasArguments(a)
  \/ isBlank(a.title)
  \/ isBlank(a.bodyText)

\* s.trim()
RECURSIVE trimStart(_)
trimStart(s) == IF Len(s) > 0 /\ IsSpace(s[1]) THEN trimStart(Tail(s)) ELSE s

RECURSIVE trimEnd(_)
trimEnd(s) ==
  IF Len(s) > 0 /\ IsSpace(s[Len(s)]) THEN trimEnd(SubSeq(s, 1, Len(s) - 1)) ELSE s

trim(s) == trimEnd(trimStart(s))

\* the last index of the match of /\n\s*\n/ that starts at i, 0 when there is none
blankLineEnd(text, i) ==
  IF text[i] # "\n" THEN 0
  ELSE LET run == RunEnd(text, i + 1, IsSpace)
           ends == {k \in (i+1)..run : text[k] = "\n"}
       IN IF ends = {} THEN 0 ELSE CHOOSE k \in ends : \A j \in ends : j <= k

\* bodyText.split(/\n\s*\n/)
RECURSIVE splitBlankLines(_, _)
splitBlankLines(text, i) ==
  LET seps == {j \in i..Len(text) : blankLineEnd(text, j) > 0}
  IN IF seps = {} THEN <<SubSeq(text, i, Len(text))>>
     ELSE LET j == CHOOSE m \in seps : \A n \in seps : m <= n
          IN <<SubSeq(text, i, j - 1)>> \o splitBlankLines(text, blankLineEnd(text, j) + 1)

\* the chunks of createSeontologyJsonLD: the trimmed, non-empty pieces
chunksOf(bodyText) ==
  IF Truthy(bodyText) /\ ~isBlank(bodyText)
  THEN LET raw == splitBlankLines(bodyText, 1)
       IN SelectSeq([i \in 1..Len(raw) |-> trim(raw[i])], NonEmpty)
  ELSE <<>>

\* the validation loop of createSeontologyJsonLD over requiredFields
createSeontologyRejects(a) ==
  \/ ~HasArguments(a)
  \/ isBlank(a.url)
  \/ isBlank(a.title)
  \/ isBlank(a.metaDescription)
  \/ isBlank(a.primaryQuery)

\* the object createSeontologyJsonLD returns
createSeontologyJsonLD(a, now) ==
  [id |-> a.url,
   title |-> a.title,
   metaDescription |-> a.metaDescription,
   primaryQuery |-> a.primaryQuery,
   language |-> IF a.language = Undefined THEN <<"auto-detected">> ELSE a.language,
   chunks |-> chunksOf(IF a.bodyText = Undefined THEN <<>> ELSE a.bodyText),
   dateModified |-> now]

\* A response.  status is the HTTP status (0 on the STDIO transport and for a
\* direct call), code the JSON-RPC error code (0 when there is none), payload
\* what the body carries, at the time stamp in it.
NoPayload == [kind |-> "none"]

Response(ok, status, code, payload, at) ==
  [ok |-> ok, status |-> status, code |-> code, payload |-> payload, at |-> at]

NoResponse == Response(FALSE, 0, 0, NoPayload, 0)

ToolNames == <<"wrap_as_seontology", "extract_main_query">>

\* what a handler does with a request before any tool runs: it replies, or it
\* calls extractQueryPureNLP, or (a direct caller) analyze
Reply(response) == [kind |-> "reply", response |-> response]

CallExtract(a) == [kind |-> "extract", arguments |-> a]

CallAnalyze(a) == [kind |-> "analyze", arguments |-> a]

\* a handler's call of createSeontologyJsonLD: the reply with the JSON-LD, or the
\* reply the handler makes of the error thrown
Wrap(a, status, thrown, now) ==
  IF createSeontologyRejects(a) THEN Reply(thrown)
  ELSE Reply(Response(TRUE, status, 0,
                      [kind |-> "jsonld", jsonld |-> createSeontologyJsonLD(a, now)], 0))

\* app.post("/api/extract-query"): the validation, then the argument object
apiExtractQuery(r, now) ==
  IF isBlank(r.arguments.title) \/ isBlank(r.arguments.bodyText)
  THEN Reply(Response(FALSE, 400, 0, NoPayload, now))
  ELSE CallExtract([r.arguments EXCEPT
                      !.metaDescription = IF Truthy(@) THEN @ ELSE <<>>])

\* the endpoint that looks at the method before it looks at jsonrpc
mcpEndpointMethodFirst(r, now) ==
  IF r.method = "tools/list"
  THEN Reply(Response(TRUE, 200, 0, [kind |-> "tools", tools |-> ToolNames], 0))
  ELSE IF r.jsonrpc # "2.0" THEN Reply(Response(FALSE, 400, -32600, NoPayload, 0))
  ELSE IF r.method = "tools/call" /\ r.name = "wrap_as_seontology"
       THEN Wrap(r.arguments, 200, Response(FALSE, 500, -32603, NoPayload, 0), now)
  ELSE IF r.method = "tools/call" /\ r.name = "extract_main_query"
       THEN CallExtract(r.arguments)
  ELSE Reply(Response(FALSE, 404, -32601, NoPayload, 0))

\* app.post("/mcp")
mcpEndpoint(r, now) ==
  IF r.jsonrpc # "2.0" THEN Reply(Response(FALSE, 400, -32600, NoPayload, 0))
  ELSE IF r.method = "tools/list"
       THEN Reply(Response(TRUE, 200, 0, [kind |-> "tools", tools |-> ToolNames], 0))
  ELSE IF r.method = "tools/call" /\ r.name = "wrap_as_seontology"
       THEN Wrap(r.arguments, 200, Response(FALSE, 500, -32603, NoPayload, 0), now)
  ELSE IF r.method = "tools/call" /\ r.name = "extract_main_query"
       THEN CallExtract(r.arguments)
  ELSE Reply(Response(FALSE, 404, -32601, NoPayload, 0))

\* server.setRequestHandler(CallToolRequestSchema, ...)
stdioCallTool(r, now) ==
  IF r.name = "wrap_as_seontology"
  THEN Wrap(r.arguments, 0, Response(FALSE, 0, 0, NoPayload, 0), now)
  ELSE IF r.name = "extract_main_query" THEN CallExtract(r.arguments)
  ELSE Reply(Response(FALSE, 0, -32601, NoPayload, 0))

handlerOf(r, now) ==
  IF r.entry = "POST /api/extract-query" THEN apiExtractQuery(r, now)
  ELSE IF r.entry = "POST /mcp" THEN mcpEndpoint(r, now)
  ELSE IF r.entry = "stdio" THEN stdioCallTool(r, now)
  ELSE CallAnalyze(r.arguments)

\* the reply to an error thrown by extractQueryPureNLP: the catch block of the
\* HTTP handlers; on STDIO the error leaves the handler
errorReplyOf(r, now) ==
  IF r.entry = "POST /api/extract-query" THEN Response(FALSE, 400, 0, NoPayload, now)
  ELSE IF r.entry = "POST /mcp" THEN Response(FALSE, 500, -32603, NoPayload, 0)
  ELSE Response(FALSE, 0, 0, NoPayload, 0)

\* the reply that carries the query extracted
successReplyOf(r, queryResult, now) ==
  IF r.entry = "POST /api/extract-query"
  THEN Response(TRUE, 200, 0, [kind |-> "query", query |-> queryResult], now)
  ELSE IF r.entry = "POST /mcp"
       THEN Response(TRUE, 200, 0, [kind |-> "query", query |-> queryResult], 0)
  ELSE Response(TRUE, 0, 0, [kind |-> "query", query |-> queryResult], 0)

(***************************************************************************)
(* One call of analyze as a state machine                                  *)
(***************************************************************************)
VARIABLES
  pc,                \* the statement the running handler or analyze is at
  args,              \* the argument object of extractQueryPureNLP
  title,             \* the arguments of analyze
  metaDescription,
  bodyText,
  preferredLanguage,
  combinedText,      \* the local variables of analyze
  languageProfile,
  words,
  stopWords,         \* the Set stopWords, in insertion order
  draw,              \* the loop of identifyStopWordsStatistically: the iterations done
                     \* and the outcome of the draws of the last one
  tokens,
  ngrams,
  clustering,        \* the local variables of clusterSemantically
  clusters,
  queryType,
  result

vars == <<calls, current, clock, replay, pc, args, title, metaDescription, bodyText,
          preferredLanguage, combinedText, languageProfile, words, stopWords, draw,
          tokens, ngrams, clustering, clusters, queryType, result>>

analyzeArguments == <<title, metaDescription, bodyText, preferredLanguage>>

arguments == <<args, analyzeArguments>>

locals == <<combinedText, languageProfile, words, stopWords, draw, tokens, ngrams, clustering,
            clusters, queryType, result>>

None == "none"

\* no iteration done
NoDraw == [iteration |-> 0, seg |-> <<>>]

\* no run is being repeated
NoReplay == [on |-> FALSE, recorded |-> FALSE, draws |-> <<>>]

\* const combinedText = `${title} ${metaDescription} ${bodyText}`
Combine ==
  /\ pc = "analyze"
  /\ combinedText' = combinedTextOf(title, metaDescription, bodyText)
  /\ pc' = "detect"
  /\ UNCHANGED <<serverVars, arguments, languageProfile, words, stopWords, draw, tokens, ngrams,
                 clustering, clusters, queryType, result>>

\* 1. language detection, or the caller's language
DetectLanguage ==
  /\ pc = "detect"
  /\ languageProfile' = languageProfileOf(combinedText, preferredLanguage)
  /\ pc' = "tokenize"
  /\ UNCHANGED <<serverVars, arguments, combinedText, words, stopWords, draw, tokens, ngrams,
                 clustering, clusters, queryType, result>>

\* tokenization in front of a stop-word set that outlives the call
TokenizeKeepingStopWords ==
  /\ pc = "tokenize"
  /\ words' = wordsOf(combinedText)
  /\ draw' = NoDraw
  /\ pc' = IF Len(wordsOf(combinedText)) = 0 THEN "tfidf" ELSE "stopwords"
  /\ UNCHANGED <<serverVars, arguments, combinedText, languageProfile, stopWords, tokens, ngrams,
                 clustering, clusters, queryType, result>>

\* 2. tokenization
Tokenize ==
  /\ pc = "tokenize"
  /\ words' = wordsOf(combinedText)
  /\ stopWords' = <<>>
  /\ draw' = NoDraw
  /\ pc' = IF Len(wordsOf(combinedText)) = 0 THEN "tfidf" ELSE "stopwords"
  /\ UNCHANGED <<serverVars, arguments, combinedText, languageProfile, tokens, ngrams,
                 clustering, clusters, queryType, result>>

\* one iteration of the loop of identifyStopWordsStatistically over the distinct
\* words: approximateSentences draws a segmentation, the word is added or not
StopWordStep ==
  /\ pc = "stopwords"
  /\ LET keys == Distinct(words)
         k == draw.iteration + 1
     IN \E seg \in IF replay.recorded THEN {replay.draws[k]} ELSE Segmentations(Len(words)) :
          /\ draw' = [iteration |-> k, seg |-> seg]
          /\ replay' = IF replay.on /\ ~replay.recorded
                       THEN [replay EXCEPT !.draws = Append(@, seg)]
                       ELSE replay
          /\ stopWords' = IF IsStopWord(words, keys[k], seg) /\ keys[k] \notin Range(stopWords)
                          THEN Append(stopWords, keys[k]) ELSE stopWords
          /\ pc' = IF k = Len(keys) THEN "tfidf" ELSE "stopwords"
  /\ UNCHANGED <<calls, current, clock, arguments, combinedText, languageProfile, words, tokens,
                 ngrams, clustering, clusters, queryType, result>>

\* 3. TF-IDF.  The loop of step 2 is over: a replay has the draws of the first run.
WeighTerms ==
  /\ pc = "tfidf"
  /\ tokens' = calculateTFIDF(words, Range(stopWords))
  /\ draw' = NoDraw
  /\ replay' = [replay EXCEPT !.recorded = replay.on]
  /\ pc' = "ngrams"
  /\ UNCHANGED <<calls, current, clock, arguments, combinedText, languageProfile, words, stopWords,
                 ngrams, clustering, clusters, queryType, result>>

\* n-grams in front of a processed set that outlives the call
ExtractPhrasesKeepingProcessed ==
  /\ pc = "ngrams"
  /\ ngrams' = extractNGrams(tokens, combinedText)
  /\ clustering' = [ClusteringStart EXCEPT !.processed = clustering.processed]
  /\ pc' = "cluster"
  /\ UNCHANGED <<serverVars, arguments, combinedText, languageProfile, words, stopWords, draw, tokens,
                 clusters, queryType, result>>

\* 4. n-grams
ExtractPhrases ==
  /\ pc = "ngrams"
  /\ ngrams' = extractNGrams(tokens, combinedText)
  /\ clustering' = ClusteringStart
  /\ pc' = "cluster"
  /\ UNCHANGED <<serverVars, arguments, combinedText, languageProfile, words, stopWords, draw, tokens,
                 clusters, queryType, result>>

ClusterFrame ==
  /\ pc' = pc
  /\ UNCHANGED <<serverVars, arguments, combinedText, languageProfile, words, stopWords, draw, tokens,
                 ngrams, clusters, queryType, result>>

\* 5. clustering, statement by statement
ClusterSkip ==
  /\ pc = "cluster"
  /\ CanSkipTerm(clustering, allTermsOf(tokens, ngrams))
  /\ clustering' = SkipTerm(clustering)
  /\ ClusterFrame

ClusterOpen ==
  /\ pc = "cluster"
  /\ CanOpenCluster(clustering, allTermsOf(tokens, ngrams))
  /\ clustering' = OpenCluster(clustering, allTermsOf(tokens, ngrams))
  /\ ClusterFrame

ClusterScan ==
  /\ pc = "cluster"
  /\ CanScanOther(clustering, allTermsOf(tokens, ngrams))
  /\ clustering' = ScanOther(clustering, allTermsOf(tokens, ngrams), tokens, ngrams)
  /\ ClusterFrame

ClusterClose ==
  /\ pc = "cluster"
  /\ CanCloseCluster(clustering, allTermsOf(tokens, ngrams))
  /\ clustering' = CloseCluster(clustering, allTermsOf(tokens, ngrams))
  /\ ClusterFrame

ClusterRank ==
  /\ pc = "cluster"
  /\ ClusteringDone(clustering, allTermsOf(tokens, ngrams))
  /\ clusters' = rankClusters(clustering.clusters)
  /\ pc' = "classify"
  /\ UNCHANGED <<serverVars, arguments, combinedText, languageProfile, words, stopWords, draw, tokens,
                 ngrams, clustering, queryType, result>>

\* 6. query type
Classify ==
  /\ pc = "classify"
  /\ queryType' = classifyQueryTypeStatistically(clusters)
  /\ pc' = "select"
  /\ UNCHANGED <<serverVars, arguments, combinedText, languageProfile, words, stopWords, draw, tokens,
                 ngrams, clustering, clusters, result>>

\* 7. and 8. main query, metrics and the returned object
Select ==
  /\ pc = "select"
  /\ result' = analysisResult(title, combinedText, languageProfile, words, stopWords, tokens, ngrams,
                              clusters, queryType)
  /\ pc' = "done"
  /\ UNCHANGED <<serverVars, arguments, combinedText, languageProfile, words, stopWords, draw, tokens,
                 ngrams, clustering, clusters, queryType>>


(***************************************************************************)
(* The server: requests arrive at any time, the event loop runs one        *)
(* handler at a time, from its first statement to its reply                *)
(***************************************************************************)
\* a request reaches the server
Receive(c) ==
  /\ calls[c].status = "sent"
  /\ calls' = [calls EXCEPT ![c].status = "queued"]
  /\ UNCHANGED <<current, clock, replay, pc, arguments, locals>>

\* the event loop starts the handler of a queued request
Dispatch(c) ==
  /\ current = 0
  /\ calls[c].status = "queued"
  /\ current' = c
  /\ calls' = [calls EXCEPT ![c].status = "running"]
  /\ pc' = "handler"
  /\ UNCHANGED <<clock, replay, arguments, locals>>

\* res.json(...), or the return or throw of the STDIO handler
Finish(response) ==
  /\ calls' = [calls EXCEPT ![current].status = "done", ![current].response = response]
  /\ current' = 0
  /\ clock' = clock + 1
  /\ pc' = "idle"

\* const nlp = new TrulyPureNLP(); nlp.analyze(title, metaDescription, bodyText, language)
Invoke(t, m, b, l) ==
  /\ title' = t
  /\ metaDescription' = m
  /\ bodyText' = b
  /\ preferredLanguage' = l
  /\ pc' = "analyze"
  /\ calls' = [calls EXCEPT ![current].analyzed = TRUE]
  /\ UNCHANGED <<current, clock, replay, locals>>

\* the handler up to its reply or to the call it makes
Handler ==
  /\ pc = "handler"
  /\ LET step == handlerOf(calls[current].request, clock)
     IN IF step.kind = "reply"
        THEN /\ Finish(step.response)
             /\ UNCHANGED <<replay, arguments, locals>>
        ELSE IF step.kind = "extract"
        THEN /\ args' = step.arguments
             /\ pc' = "extract"
             /\ UNCHANGED <<serverVars, analyzeArguments, locals>>
        ELSE /\ Invoke(step.arguments.title, step.arguments.metaDescription,
                       step.arguments.bodyText, step.arguments.language)
             /\ UNCHANGED args

\* extractQueryPureNLP up to its throw or to its call of analyze
Extract ==
  /\ pc = "extract"
  /\ IF extractQueryRejects(args)
     THEN /\ Finish(errorReplyOf(calls[current].request, clock))
          /\ UNCHANGED <<replay, arguments, locals>>
     ELSE /\ Invoke(args.title, IF Truthy(args.metaDescription) THEN args.metaDescription ELSE <<>>,
                    args.bodyText, args.language)
          /\ UNCHANGED args

\* the rest of extractQueryPureNLP and of the handler once analyze has returned
Respond ==
  /\ pc = "done"
  /\ current # 0
  /\ Finish(IF calls[current].request.entry = "analyze"
            THEN Response(TRUE, 0, 0, [kind |-> "analysis", analysis |-> result], 0)
            ELSE successReplyOf(calls[current].request, queryResultOf(args, result, clock), clock))
  /\ UNCHANGED <<replay, arguments, locals>>

(***************************************************************************)
(* The inputs the model explores                                           *)
(***************************************************************************)
laptops == <<"l","a","p","t","o","p","s">>

reviews == <<"r","e","v","i","e","w","s">>

pricing == <<"p","r","i","c","i","n","g">>

top2024 == <<"t","o","p","2","0","2","4">>

hi == <<"h","i">>

\* the word with its first letter in upper case
Capitalized(w) ==
  IF Len(w) > 0 /\ IsLowerAZ(w[1])
  THEN <<UpperLetters[CHOOSE i \in 1..26 : LowerLetters[i] = w[1]]>> \o Tail(w)
  ELSE w

\* the texts of at most n words of the vocabulary, single-spaced
TextsOver(vocabulary, n) ==
  UNION {{join(ws, <<" ">>) : ws \in [1..k -> vocabulary]} : k \in 0..n}

MaxBodyWords == 2

BodyWords == {laptops, reviews, pricing, top2024, hi}

Titles ==
  {<<>>, <<" ">>, Capitalized(hi),
   Capitalized(reviews),
   join(<<Capitalized(reviews), Capitalized(pricing)>>, <<" ">>),
   join(<<Capitalized(pricing), Capitalized(laptops)>>, <<" ">>)}

MetaDescriptions == {<<>>, laptops}

Bodies == TextsOver(BodyWords, MaxBodyWords) \cup {<<"\n">>}

PreferredLanguages == {Undefined, <<"i","t">>}

Locals ==
  /\ combinedText = <<>>
  /\ languageProfile = None
  /\ words = <<>>
  /\ stopWords = <<>>
  /\ draw = NoDraw
  /\ tokens = <<>>
  /\ ngrams = <<>>
  /\ clustering = ClusteringStart
  /\ clusters = <<>>
  /\ queryType = None
  /\ result = None

NoServer ==
  /\ calls = <<>>
  /\ current = 0
  /\ clock = 0
  /\ replay = NoReplay

Init ==
  /\ NoServer
  /\ pc = "analyze"
  /\ args = NoArguments
  /\ title \in Titles
  /\ metaDescription \in MetaDescriptions
  /\ bodyText \in Bodies
  /\ preferredLanguage \in PreferredLanguages
  /\ Locals

Next ==
  \/ Combine
  \/ DetectLanguage
  \/ Tokenize
  \/ StopWordStep
  \/ WeighTerms
  \/ ExtractPhrases
  \/ ClusterSkip
  \/ ClusterOpen
  \/ ClusterScan
  \/ ClusterClose
  \/ ClusterRank
  \/ Classify
  \/ Select

Spec == Init /\ [][Next]_vars

(***************************************************************************)
(* calculateTFIDF, extractNGrams, clusterSemantically and the classifier   *)
(* on every word sequence and stop-word set of a small vocabulary          *)
(***************************************************************************)
ab == <<"a","b">>

cd == <<"c","d">>

e1 == <<"e","1">>

TermWords == {ab, cd, e1}

MaxTermWords == 5

TermStopWords == {<<>>, <<cd>>}

InitTerms ==
  /\ NoServer
  /\ pc = "tfidf"
  /\ args = NoArguments
  /\ title = <<>>
  /\ metaDescription = <<>>
  /\ bodyText \in TextsOver(TermWords, MaxTermWords)
  /\ preferredLanguage = Undefined
  /\ combinedText = bodyText
  /\ languageProfile = None
  /\ words = wordsOf(bodyText)
  /\ stopWords \in TermStopWords
  /\ draw = NoDraw
  /\ tokens = <<>>
  /\ ngrams = <<>>
  /\ clustering = ClusteringStart
  /\ clusters = <<>>
  /\ queryType = None
  /\ result = None

NextTerms ==
  \/ WeighTerms
  \/ ExtractPhrases
  \/ ClusterSkip
  \/ ClusterOpen
  \/ ClusterScan
  \/ ClusterClose
  \/ ClusterRank
  \/ Classify

SpecTerms == InitTerms /\ [][NextTerms]_vars

(***************************************************************************)
(* classifyQueryTypeStatistically on every short list of clusters          *)
(***************************************************************************)
Categories == {"quantitative", "entity", "action", "descriptor", "concept", "general"}

ClusterScores == {0, 150000, 200000, 300000}

MaxClusters == 2

ClustersGiven ==
  UNION {[1..k -> [centroid : {ab}, members : {<<ab>>},
                   coherenceScore : ClusterScores, category : Categories]] :
           k \in 0..MaxClusters}

InitClassify ==
  /\ NoServer
  /\ pc = "classify"
  /\ args = NoArguments
  /\ title = <<>>
  /\ metaDescription = <<>>
  /\ bodyText = <<>>
  /\ preferredLanguage = Undefined
  /\ combinedText = <<>>
  /\ languageProfile = None
  /\ words = <<>>
  /\ stopWords = <<>>
  /\ draw = NoDraw
  /\ tokens = <<>>
  /\ ngrams = <<>>
  /\ clustering = ClusteringStart
  /\ clusters \in ClustersGiven
  /\ queryType = None
  /\ result = None

SpecClassify == InitClassify /\ [][Classify]_vars

(***************************************************************************)
(* detectLanguageStatistically on every short text of a small vocabulary   *)
(***************************************************************************)
\* e-acute t e-acute, e-acute l e-acute v e-acute e s, and two plain words
ete == <<"e'","t","e'">>

elevees == <<"E'","l","e'","v","e'","e","s">>

LangWords == {ete, elevees, laptops, hi}

MaxLangWords == 3

\* twenty-two letters
LimitLetters ==
  <<"a", "b", "c", "d", "e", "f", "g", "i", "j", "k", "l", "m", "n", "o", "q", "r", "u", "v", "w",
    "x", "y", "z">>

\* texts with more than sixteen different pairs of letters: the letters of
\* LimitLetters as one word, and as words of five letters
BigramTexts ==
  {LimitLetters,
   join([k \in 1..5 |-> SubSeq(LimitLetters, 5 * k - 4, Min2(5 * k, Len(LimitLetters)))], <<" ">>)}

\* texts without a word: white space, punctuation, an accented letter
BlankTexts ==
  {<<" ">>, <<"\n", " ">>, <<"!">>, <<"%", " ", ".", ".", ".">>, <<"e'">>, <<" ", "?", "\n">>}

InitLang ==
  /\ NoServer
  /\ pc = "detect"
  /\ args = NoArguments
  /\ title = <<>>
  /\ metaDescription = <<>>
  /\ bodyText = <<>>
  /\ preferredLanguage = Undefined
  /\ combinedText \in TextsOver(LangWords, MaxLangWords) \cup BlankTexts \cup BigramTexts
  /\ languageProfile = None
  /\ words = <<>>
  /\ stopWords = <<>>
  /\ draw = NoDraw
  /\ tokens = <<>>
  /\ ngrams = <<>>
  /\ clustering = ClusteringStart
  /\ clusters = <<>>
  /\ queryType = None
  /\ result = None

SpecLang == InitLang /\ [][DetectLanguage]_vars

(***************************************************************************)
(* The server on one request of every shape: each entry point, each way    *)
(* for title and bodyText to be missing, empty or blank                    *)
(***************************************************************************)
Arguments(u, t, m, q, b, l) ==
  [url |-> u, title |-> t, metaDescription |-> m, primaryQuery |-> q, bodyText |-> b,
   language |-> l]

Request(entry, jsonrpc, method, name, a) ==
  [entry |-> entry, jsonrpc |-> jsonrpc, method |-> method, name |-> name, arguments |-> a]

ApiExtract(a) == Request("POST /api/extract-query", "", "", "", a)

McpCall(name, a) == Request("POST /mcp", "2.0", "tools/call", name, a)

StdioCall(name, a) == Request("stdio", "", "", name, a)

DirectAnalyze(a) == Request("analyze", "", "", "", a)

Call(r) == [request |-> r, status |-> "sent", analyzed |-> FALSE, response |-> NoResponse]

it == <<"i","t">>

pageUrl == <<"u","r","l">>

\* a value that is missing, empty or white space only
BlankValues == {Undefined, <<>>, <<" ">>, <<" ", "\n">>}

pageTitle == join(<<Capitalized(reviews), Capitalized(pricing)>>, <<" ">>)

pageBody == join(<<laptops, reviews, pricing, <<"\n", "\n">>, top2024, hi>>, <<" ">>)

ExtractArguments ==
  {Arguments(Undefined, t, Undefined, Undefined, b, Undefined) :
     t \in BlankValues \cup {pageTitle}, b \in BlankValues \cup {pageBody}}
  \cup {Arguments(pageUrl, pageTitle, laptops, Undefined, pageBody, it)}

WrapArguments ==
  {Arguments(pageUrl, pageTitle, laptops, q, b, Undefined) :
     q \in {Undefined, reviews}, b \in {Undefined, pageBody}}

BoundaryRequests ==
  {ApiExtract(a) : a \in ExtractArguments}
  \cup {McpCall("extract_main_query", a) : a \in ExtractArguments \cup {NoArguments}}
  \cup {StdioCall("extract_main_query", a) : a \in ExtractArguments \cup {NoArguments}}
  \cup {McpCall("wrap_as_seontology", a) : a \in WrapArguments \cup {NoArguments}}
  \cup {StdioCall("wrap_as_seontology", a) : a \in WrapArguments}
  \cup {Request("POST /mcp", "1.0", "tools/call", "extract_main_query", NoArguments),
        Request("POST /mcp", "2.0", "tools/list", "", NoArguments),
        Request("POST /mcp", "2.0", "ping", "", NoArguments),
        Request("POST /mcp", "1.0", "tools/list", "", NoArguments),
        Request("POST /mcp", "2.0", "tools/call", "other", NoArguments),
        Request("POST /mcp", "2.0", "tools/list", "extract_main_query", NoArguments),
        StdioCall("other", NoArguments)}
  \cup {DirectAnalyze(Arguments(Undefined, pageTitle, m, Undefined, b, Undefined)) :
          m \in {<<>>, laptops}, b \in BlankValues \ {Undefined}}

Idle ==
  /\ current = 0
  /\ clock = 0
  /\ pc = "idle"
  /\ args = NoArguments
  /\ title = <<>>
  /\ metaDescription = <<>>
  /\ bodyText = <<>>
  /\ preferredLanguage = Undefined
  /\ Locals

InitBoundary ==
  /\ calls \in [{1} -> {Call(r) : r \in BoundaryRequests}]
  /\ replay = NoReplay
  /\ Idle

NextServer ==
  \/ \E c \in DOMAIN calls : Receive(c)
  \/ \E c \in DOMAIN calls : Dispatch(c)
  \/ Handler
  \/ Extract
  \/ Combine
  \/ DetectLanguage
  \/ Tokenize
  \/ StopWordStep
  \/ WeighTerms
  \/ ExtractPhrases
  \/ ClusterSkip
  \/ ClusterOpen
  \/ ClusterScan
  \/ ClusterClose
  \/ ClusterRank
  \/ Classify
  \/ Select
  \/ Respond

SpecBoundary == InitBoundary /\ [][NextServer]_vars

(***************************************************************************)
(* The server on several extract-query requests in flight at once          *)
(***************************************************************************)
MaxCalls == 2

\* A title of one word and a body of 4 * 10 words.  With five sentences the
\* word of the title is in a fifth of them, with four in a quarter: the draws
\* decide whether it is a stop word.
deals == <<"d","e","a","l","s">>

longBody ==
  [i \in 1..(3 * 4 * MinSentenceWords - 1) |->
     IF i % 3 = 1 THEN "a" ELSE IF i % 3 = 2 THEN "b" ELSE " "]

LongArguments == Arguments(Undefined, Capitalized(deals), Undefined, Undefined, longBody, it)

ServerRequests ==
  <<ApiExtract(Arguments(pageUrl, Capitalized(pricing), laptops, Undefined,
                         join(<<top2024, laptops, hi>>, <<" ">>), it)),
    McpCall("extract_main_query",
            Arguments(Undefined, pageTitle, Undefined, Undefined, <<" ">>, Undefined)),
    StdioCall("extract_main_query", LongArguments)>>

\* The numbers of the calls carry no order of arrival or of handling (Receive and
\* Dispatch take any call), so the requests are listed in one order only.
InitServer ==
  /\ \E pick \in [1..MaxCalls -> DOMAIN ServerRequests] :
       /\ \A c \in 1..(MaxCalls - 1) : pick[c] <= pick[c + 1]
       /\ calls = [c \in 1..MaxCalls |-> Call(ServerRequests[pick[c]])]
  /\ replay = NoReplay
  /\ Idle

SpecServer == InitServer /\ [][NextServer]_vars

(***************************************************************************)
(* Two runs of analyze on the same arguments, the second with the draws    *)
(* of the first                                                            *)
(***************************************************************************)
ReplayArguments ==
  {Arguments(Undefined, t, m, Undefined, b, l) :
     t \in {pageTitle, hi}, m \in {<<>>, laptops}, b \in {<<>>, pageBody}, l \in {Undefined, it}}
  \cup {[LongArguments EXCEPT !.metaDescription = <<>>]}

InitReplay ==
  /\ \E a \in ReplayArguments : calls = [c \in 1..2 |-> Call(DirectAnalyze(a))]
  /\ replay = [NoReplay EXCEPT !.on = TRUE]
  /\ Idle

NextReplay ==
  \/ \E c \in DOMAIN calls : Receive(c)
  \/ \E c \in DOMAIN calls : Dispatch(c)
  \/ Handler
  \/ Combine
  \/ DetectLanguage
  \/ Tokenize
  \/ StopWordStep
  \/ WeighTerms
  \/ ExtractPhrases
  \/ ClusterSkip
  \/ ClusterOpen
  \/ ClusterScan
  \/ ClusterClose
  \/ ClusterRank
  \/ Classify
  \/ Select
  \/ Respond

SpecReplay == InitReplay /\ [][NextReplay]_vars

(***************************************************************************)
(* calculateTFIDF and extractNGrams on texts long enough for the limit of  *)
(* twenty phrases and for the coherence filter to matter                   *)
(***************************************************************************)
\* distinct two-letter words, none a part of another
PhraseWords ==
  <<ab, cd, <<"e","f">>, <<"g","h">>, <<"i","j">>, <<"k","l">>, <<"m","n">>, <<"o","p">>,
    <<"q","r">>, <<"s","t">>, <<"u","v">>, <<"w","x">>, <<"y","z">>>>

MaxPhraseWords == 12

\* "ab" and "cd" are the two heaviest tokens and nine content words apart, and
\* "ab cd" occurs in the text inside "xab cdx"
farApart ==
  join(<<ab, ab, <<"x","a","b">>, <<"c","d","x">>>> \o SubSeq(PhraseWords, 3, 8) \o <<cd, cd>>, <<" ">>)

\* the runs of consecutive words of PhraseWords, and farApart
PhraseTexts ==
  {join(SubSeq(PhraseWords, i, j), <<" ">>) :
     i \in 1..Len(PhraseWords),
     j \in 0..Min2(Len(PhraseWords), MaxPhraseWords)}
  \cup {farApart}

InitPhrases ==
  /\ NoServer
  /\ pc = "tfidf"
  /\ args = NoArguments
  /\ title = <<>>
  /\ metaDescription = <<>>
  /\ bodyText \in PhraseTexts
  /\ preferredLanguage = Undefined
  /\ combinedText = bodyText
  /\ languageProfile = None
  /\ words = wordsOf(bodyText)
  /\ stopWords \in {<<>>, <<PhraseWords[4]>>}
  /\ draw = NoDraw
  /\ tokens = <<>>
  /\ ngrams = <<>>
  /\ clustering = ClusteringStart
  /\ clusters = <<>>
  /\ queryType = None
  /\ result = None

NextPhrases ==
  \/ WeighTerms
  \/ ExtractPhrases

SpecPhrases == InitPhrases /\ [][NextPhrases]_vars

(***************************************************************************)
(* calculateTFIDF on every short word sequence of a vocabulary with a      *)
(* one-letter word, and every stop-word set of at most one word            *)
(***************************************************************************)
TokenWords == {ab, cd, <<"x">>}

MaxTokenWords == 4

InitTokens ==
  /\ NoServer
  /\ pc = "tfidf"
  /\ args = NoArguments
  /\ title = <<>>
  /\ metaDescription = <<>>
  /\ bodyText \in TextsOver(TokenWords, MaxTokenWords)
  /\ preferredLanguage = Undefined
  /\ combinedText = bodyText
  /\ languageProfile = None
  /\ words = wordsOf(bodyText)
  /\ stopWords \in {<<>>} \cup {<<w>> : w \in TokenWords}
  /\ draw = NoDraw
  /\ tokens = <<>>
  /\ ngrams = <<>>
  /\ clustering = ClusteringStart
  /\ clusters = <<>>
  /\ queryType = None
  /\ result = None

SpecTokens == InitTokens /\ [][WeighTerms]_vars

(***************************************************************************)
(* analyze on a page long enough for every limit of the returned lists to  *)
(* matter                                                                  *)
(***************************************************************************)
\* the number of seven-letter words of the body
MaxLimitWords == 17

\* "Ab 12 Cd 12 Ef 34 Gh kl Ij mn": five capitalized words and three numbers, one
\* of them twice
LimitTitle ==
  join(<<<<"A","b">>, <<"1","2">>, <<"C","d">>, <<"1","2">>, <<"E","f">>, <<"3","4">>,
         <<"G","h">>, <<"k","l">>, <<"I","j">>, <<"m","n">>>>, <<" ">>)

\* "op qr st uv"
LimitMeta == join(SubSeq(PhraseWords, 8, 11), <<" ">>)

\* "http://a http://b http://c http://d"
LimitUrls ==
  [k \in 1..4 |-> <<"h","t","t","p",":","/","/">> \o <<LimitLetters[k]>>]

\* n words "aaaaaaa", "bbbbbbb", ... and the four URLs
LimitBody(n) ==
  join([k \in 1..n |-> [m \in 1..7 |-> LimitLetters[k]]] \o LimitUrls, <<" ">>)

\* "aaaaaaa bbbbbbb ccccccc ddddddd eeeeeee aaaaaaa": the heaviest word is within
\* three content words of the four others, which form phrases without it
LimitRing ==
  join([k \in 1..6 |-> [m \in 1..7 |-> LimitLetters[IF k = 6 THEN 1 ELSE k]]], <<" ">>)

InitLimits ==
  /\ NoServer
  /\ pc = "analyze"
  /\ args = NoArguments
  /\ title = LimitTitle
  /\ metaDescription = LimitMeta
  /\ bodyText \in {LimitBody(n) : n \in {MaxLimitWords - 1, MaxLimitWords}} \cup {LimitRing}
  /\ preferredLanguage = Undefined
  /\ Locals

SpecLimits == InitLimits /\ [][Next]_vars

(***************************************************************************)
(* analyze on the page of the laptop scenario                              *)
(***************************************************************************)
\* the largest number of repetitions in the body
MaxRepeats == 3

\* "Best Budget Laptops 2024"
ScenarioTitle ==
  <<"B", "e", "s", "t", " ", "B", "u", "d", "g", "e", "t", " ", "L", "a", "p", "t", "o", "p", "s", " ", "2", "0", "2", "4">>

\* "Compare prices and find cheap laptops"
ScenarioMeta ==
  <<"C", "o", "m", "p", "a", "r", "e", " ", "p", "r", "i", "c", "e", "s", " ", "a", "n", "d", " ", "f", "i", "n", "d", " ", "c", "h", "e", "a", "p", " ", "l", "a", "p", "t", "o", "p", "s">>

\* "laptops price comparison"
ScenarioUnit ==
  <<"l", "a", "p", "t", "o", "p", "s", " ", "p", "r", "i", "c", "e", " ", "c", "o", "m", "p", "a", "r", "i", "s", "o", "n">>

\* "Laptops", "laptops", "price comparison"
ScenarioParts ==
  <<<<"L", "a", "p", "t", "o", "p", "s">>,
    <<"l", "a", "p", "t", "o", "p", "s">>,
    <<"p", "r", "i", "c", "e", " ", "c", "o", "m", "p", "a", "r", "i", "s", "o", "n">>>>

\* the bodies that repeat "laptops" and "price comparison": r times
\* "laptops price comparison", or "Laptops", r times "laptops" and r times
\* "price comparison"
ScenarioBodies ==
  {join([k \in 1..r |-> ScenarioUnit], <<" ">>) : r \in 1..MaxRepeats}
  \cup {join(<<ScenarioParts[1]>> \o [k \in 1..r |-> ScenarioParts[2]]
             \o [k \in 1..r |-> ScenarioParts[3]], <<" ">>) : r \in 1..MaxRepeats}

InitScenario ==
  /\ NoServer
  /\ pc = "analyze"
  /\ args = NoArguments
  /\ title = ScenarioTitle
  /\ metaDescription = ScenarioMeta
  /\ bodyText \in ScenarioBodies
  /\ preferredLanguage = Undefined
  /\ Locals

SpecScenario == InitScenario /\ [][Next]_vars

(***************************************************************************)
(* clusterSemantically on texts with enough distinct words for more than   *)
(* ten clusters                                                            *)
(***************************************************************************)
\* the largest number of distinct words of the text
MaxRankWords == 41

\* the k-th of 49 distinct seven-letter words: "aaaaaah", "aaaaaai", ...; words
\* of seven letters are never stop words
RankWord(k) ==
  [m \in 1..6 |-> LimitLetters[(k - 1) \div 7 + 1]] \o <<LimitLetters[8 + ((k - 1) % 7)]>>

\* n distinct words, then the words of again
RankText(n, again) == join([k \in 1..n |-> RankWord(k)] \o again, <<" ">>)

\* the texts of n distinct words: alone, with the last word twice, and with
\* three more occurrences of two words of the middle
RankTexts ==
  UNION {{RankText(n, <<>>),
          RankText(n, <<RankWord(n)>>),
          RankText(n, <<RankWord(20), RankWord(20), RankWord(3)>>)} :
           n \in {MaxRankWords - 1, MaxRankWords}}

InitRanking ==
  /\ NoServer
  /\ pc = "tfidf"
  /\ args = NoArguments
  /\ title = <<>>
  /\ metaDescription = <<>>
  /\ bodyText \in RankTexts
  /\ preferredLanguage = Undefined
  /\ combinedText = bodyText
  /\ languageProfile = None
  /\ words = wordsOf(bodyText)
  /\ stopWords = <<>>
  /\ draw = NoDraw
  /\ tokens = <<>>
  /\ ngrams = <<>>
  /\ clustering = ClusteringStart
  /\ clusters = <<>>
  /\ queryType = None
  /\ result = None

SpecRanking == InitRanking /\ [][NextTerms]_vars

(***************************************************************************)
(* identifyStopWordsStatistically on texts of up to four sentences         *)
(***************************************************************************)
\* the k-th word: the last five, six or seven letters of RankWord(k)
ShortTextWord(k) == SubSeq(RankWord(k), 3 - (k % 3), 7)

\* n distinct words of five to seven letters, up to four sentences of the least
\* length; in the longest text the first
\* word may also come back as the last one
ShortTexts ==
  {join([k \in 1..n |-> ShortTextWord(IF k = m THEN 1 ELSE k)], <<" ">>) :
     n \in {1, 12, 23, 34, 4 * MinSentenceWords}, m \in {0, 4 * MinSentenceWords}}

InitShortTexts ==
  /\ NoServer
  /\ pc = "tokenize"
  /\ args = NoArguments
  /\ title = <<>>
  /\ metaDescription = <<>>
  /\ bodyText = <<>>
  /\ preferredLanguage = Undefined
  /\ combinedText \in ShortTexts
  /\ languageProfile = None
  /\ words = <<>>
  /\ stopWords = <<>>
  /\ draw = NoDraw
  /\ tokens = <<>>
  /\ ngrams = <<>>
  /\ clustering = ClusteringStart
  /\ clusters = <<>>
  /\ queryType = None
  /\ result = None

NextShortTexts ==
  \/ Tokenize
  \/ StopWordStep

SpecShortTexts == InitShortTexts /\ [][NextShortTexts]_vars

(***************************************************************************)
(* analyze on pages whose words get every semantic role                    *)
(***************************************************************************)
\* the largest number of repetitions of the pattern
MaxRoleRepeats == 4

\* the seven-letter word made of the k-th letter of LimitLetters
RoleWord(k) == [m \in 1..7 |-> LimitLetters[k]]

\* "aaaaaaa aaaaaaa Wwwwwww aaaaaaa aaaaaaa": the capitalized word has the same
\* five words around each of its occurrences
RolePattern ==
  <<RoleWord(1), RoleWord(1), Capitalized(RoleWord(19)), RoleWord(1), RoleWord(1)>>

\* r times the pattern
RoleRepeats(r) == [k \in 1..(5 * r) |-> RolePattern[((k - 1) % 5) + 1]]

\* "bbbbbbb ccccccc ddddddd bbbbbbb": a word that occurs twice among different words
RoleTail == <<RoleWord(2), RoleWord(3), RoleWord(4), RoleWord(2)>>

RoleBodies ==
  {join(RoleRepeats(r) \o tail, <<" ">>) :
     r \in 0..MaxRoleRepeats, tail \in {<<>>, RoleTail, <<RoleWord(5)>>}}

InitRoles ==
  /\ NoServer
  /\ pc = "analyze"
  /\ args = NoArguments
  /\ title = <<>>
  /\ metaDescription = <<>>
  /\ bodyText \in RoleBodies
  /\ preferredLanguage = Undefined
  /\ Locals

SpecRoles == InitRoles /\ [][Next]_vars

(***************************************************************************)
(* Properties                                                              *)
(***************************************************************************)
\* the clusters clusterSemantically holds at this point: those pushed and the one
\* being built
BuiltClusters ==
  clustering.clusters
    \o (IF clustering.cluster = NoCluster THEN <<>> ELSE <<clustering.cluster>>)

\* the places <<cluster, position>> at which a term is a member
MemberPlaces(term, cls) ==
  {pl \in UNION {{<<c, m>> : m \in 1..Len(cls[c].members)} : c \in 1..Len(cls)} :
     cls[pl[1]].members[pl[2]] = term}

AllMembers(cls) == UNION {Range(cls[c].members) : c \in 1..Len(cls)}

ExclusiveMembers(cls) == \A term \in AllMembers(cls) : Cardinality(MemberPlaces(term, cls)) = 1

\* a term that is a member of a cluster is a member of the same cluster after the step
MembershipKept ==
  \A term \in AllMembers(BuiltClusters) :
    \A pl \in MemberPlaces(term, BuiltClusters) :
      /\ pl[1] <= Len(BuiltClusters')
      /\ pl[2] <= Len(BuiltClusters'[pl[1]].members)
      /\ BuiltClusters'[pl[1]].members[pl[2]] = term

\* C1: in clusterSemantically every term or phrase is in the member list of at most
\* one cluster, at every step of the run and in the clusters returned, and a term
\* that has seeded a cluster or been attached to one stays in that cluster: no
\* later step attaches it to another.
C1_ExclusiveMembership ==
  /\ [](ExclusiveMembers(BuiltClusters) /\ ExclusiveMembers(clusters))
  /\ [][pc = "cluster" => MembershipKept]_vars

\* C1 witness: the run has returned two clusters, and a member of one of them is
\* similar (> 0.3) to the centroid of another, which did not attach it
C1_Witness ==
  /\ pc = "classify"
  /\ Len(clusters) >= 2
  /\ \E c, d \in 1..Len(clusters) :
       /\ c # d
       /\ \E m \in 2..Len(clusters[c].members) :
            IsSimilar(calculateTermSimilarity(clusters[d].centroid, clusters[c].members[m],
                                              tokens, ngrams))

\* analyze has tokenized its text
Tokenized == pc \notin {"analyze", "detect", "tokenize"}

\* C3: when the combined text yields an empty word sequence, analyze goes on to its
\* return statement (no step is stuck), and the object returned has an empty token
\* list, an empty keyphrase list, an empty cluster list and the lowercased title as
\* mainQuery.
C3_EmptyWordSequence ==
  (Tokenized /\ Len(words) = 0) =>
     IF pc = "done"
     THEN /\ result.tokens = <<>>
          /\ result.keyphrases = <<>>
          /\ result.semanticClusters = <<>>
          /\ result.mainQuery = toLowerCase(title)
     ELSE ENABLED Next

\* C3 witness: analyze has returned for a title of white space, an empty description
\* and a body of white space
C3_Witness ==
  /\ pc = "done"
  /\ Len(words) = 0
  /\ Len(title) > 0
  /\ Len(bodyText) > 0

Least(S) == CHOOSE x \in S : \A y \in S : x <= y

\* the ranks of the kept phrases, and of the tokens, that occur in the lowercased title
TitlePhraseRanks ==
  {i \in 1..Len(ngrams) : includes(toLowerCase(title), ngrams[i].phrase)}

TitleTokenRanks ==
  {i \in 1..Len(tokens) : includes(toLowerCase(title), tokens[i].word)}

\* C4: mainQuery is (1) the highest-ranked kept phrase that is a substring of the
\* lowercased title; (2) otherwise the top-ranked kept phrase; (3) otherwise, with no
\* phrase kept, the highest-ranked token that is a substring of the lowercased title;
\* (4) otherwise the top-ranked token; (5) otherwise, with no token, the lowercased
\* title.
C4_MainQueryPrecedence ==
  pc = "done" =>
    result.mainQuery =
      (IF TitlePhraseRanks # {} THEN ngrams[Least(TitlePhraseRanks)].phrase
       ELSE IF Len(ngrams) > 0 THEN ngrams[1].phrase
       ELSE IF TitleTokenRanks # {} THEN tokens[Least(TitleTokenRanks)].word
       ELSE IF Len(tokens) > 0 THEN tokens[1].word
       ELSE toLowerCase(title))

\* C4 witness: analyze has returned, a kept phrase occurs in the title, and it is
\* not the top-ranked phrase
C4_Witness ==
  /\ pc = "done"
  /\ TitlePhraseRanks # {}
  /\ 1 \notin TitlePhraseRanks

\* the query types whose accumulated score is the highest
TopTypes ==
  LET scores == categoryScoresOf(clusters)
  IN {k \in 1..4 : \A j \in 1..4 : scores[k] >= scores[j]}

TopScore == categoryScoresOf(clusters)[Least(TopTypes)]

\* C5 as stated: the query type with the highest accumulated score wins, and when
\* two or more types tie for the highest score the result is "informational".
C5_TiesGoToInformational ==
  pc = "select" =>
    IF Cardinality(TopTypes) = 1
    THEN queryType = QueryTypes[Least(TopTypes)]
    ELSE queryType = "informational"

\* C5 amended: the query type with the highest accumulated score wins; when two or
\* more types tie for a highest score that is positive, the first of them in the
\* order commercial, transactional, navigational, informational wins; when no score
\* is positive the result is "informational".
C5_TiesGoToFirstType ==
  pc = "select" =>
    IF TopScore > 0
    THEN queryType = QueryTypes[Least(TopTypes)]
    ELSE queryType = "informational"

\* C5 witness: the classifier has run on clusters whose commercial and
\* transactional scores tie for the highest, positive, score
C5_Witness ==
  /\ pc = "select"
  /\ {1, 2} \subseteq TopTypes
  /\ TopScore > 0

\* the words analyze keeps after stop-word filtering
FilteredWords == contentWordsOf(words, Range(stopWords))

\* C6 as stated: for a non-empty word sequence, vocabularyRichness is the number of
\* distinct retained tokens over the number of words of the stop-word-filtered
\* sequence, and lies in (0, 1].
C6_RichnessOverFilteredWords ==
  (pc = "done" /\ Len(words) > 0) =>
    LET r == result.nlpMetrics.vocabularyRichness
    IN /\ Len(FilteredWords) > 0
       /\ r.den > 0
       /\ r.num * Len(FilteredWords) = Cardinality(Range(FilteredWords)) * r.den
       /\ r.num > 0
       /\ r.num <= r.den

\* C6 amended: for a non-empty word sequence, vocabularyRichness is the number of
\* distinct retained tokens over the number of words of the whole (unfiltered) word
\* sequence, and lies in [0, 1].
C6_RichnessOverAllWords ==
  (pc = "done" /\ Len(words) > 0) =>
    LET r == result.nlpMetrics.vocabularyRichness
    IN /\ r.num = Cardinality(Range(FilteredWords))
       /\ r.den = Len(words)
       /\ r.num >= 0
       /\ r.num <= r.den

\* C6 witness: analyze has returned for a text with both stop words and tokens
C6_Witness ==
  /\ pc = "done"
  /\ Len(result.tokens) > 0
  /\ Len(FilteredWords) < Len(words)

\* The features of a text as the rules of the language profiler name them, on the
\* lowercased text with its letters kept: punctuation is what is neither a letter
\* (accented or not), a digit, an underscore nor white space.
TextFeatures(text) ==
  LET low == toLowerCase(text)
      clean == [i \in 1..Len(low) |->
                  IF IsWordChar(low[i]) \/ IsSpace(low[i]) \/ low[i] \in DiacriticChars
                  THEN low[i] ELSE " "]
      ws == splitWords(clean)
  IN [nWords |-> Len(ws),
      totalChars |-> SumSeq([i \in 1..Len(ws) |-> Len(ws[i])]),
      vowels |-> CountChars(clean, VowelChars),
      diacritics |-> CountChars(clean, DiacriticChars),
      consonantClusters |-> CountConsonantClusters(clean)]

\* C7 as stated: a text whose diacritic ratio exceeds 0.02, whose vowel ratio
\* exceeds 0.4 and which does not match the "de" rule is tagged "fr" when its mean
\* word length is at least 5.5, and "es" when it is below.
C7_DiacriticTextIsFrenchOrSpanish ==
  pc = "tokenize" =>
    LET f == TextFeatures(combinedText)
    IN (/\ f.nWords > 0
        /\ 100 * f.diacritics > 2 * f.totalChars
        /\ 10 * f.vowels > 4 * f.totalChars
        /\ ~(f.totalChars > 6 * f.nWords /\ 10 * f.consonantClusters > f.nWords))
       => languageProfile.language =
            (IF 10 * f.totalChars >= 55 * f.nWords THEN "fr" ELSE "es")

\* C10: every token calculateTFIDF returns has a non-negative weight, and the list
\* is in non-increasing order of weight.
C10_WeightsSortedNonNegative ==
  pc # "tfidf" =>
    /\ \A i \in 1..Len(tokens) : tokens[i].tfIdf >= 0
    /\ \A i, j \in 1..Len(tokens) : i < j => tokens[i].tfIdf >= tokens[j].tfIdf

\* C10 witness: calculateTFIDF has returned three tokens or more, of different
\* weights, and the first one is not the first word of the text
C10_Witness ==
  /\ pc = "ngrams"
  /\ Len(tokens) >= 3
  /\ tokens[1].tfIdf > tokens[Len(tokens)].tfIdf
  /\ tokens[1].positions[1] # 0

\* a value of a request that is missing, empty or white space only
Missing(v) == v = Undefined

WhitespaceOnly(v) == v # Undefined /\ \A i \in 1..Len(v) : v[i] \in SpaceChars

LacksTitleOrBody(a) ==
  \/ ~HasArguments(a)
  \/ Missing(a.title) \/ WhitespaceOnly(a.title)
  \/ Missing(a.bodyText) \/ WhitespaceOnly(a.bodyText)

\* the request asks one of the three entry points to extract a query
ExtractRequest(r) ==
  \/ r.entry = "POST /api/extract-query"
  \/ r.entry = "POST /mcp" /\ r.jsonrpc = "2.0" /\ r.method = "tools/call"
       /\ r.name = "extract_main_query"
  \/ r.entry = "stdio" /\ r.name = "extract_main_query"

\* C2: through each of the three entry points that extract a query, a request
\* whose title or bodyText is missing, empty or white space only never reaches
\* analyze (its handler is never past extractQueryPureNLP's check) and, once
\* answered, carries an error and no result; a direct call of analyze with an
\* empty or blank bodyText returns an Analysis Result.
C2_RejectedAtBoundary ==
  \A c \in DOMAIN calls :
    LET r == calls[c].request
    IN /\ (ExtractRequest(r) /\ LacksTitleOrBody(r.arguments)) =>
            /\ ~calls[c].analyzed
            /\ current = c => pc \in {"handler", "extract"}
            /\ calls[c].status = "done" =>
                 ~calls[c].response.ok /\ calls[c].response.payload.kind = "none"
       /\ (r.entry = "analyze" /\ WhitespaceOnly(r.arguments.bodyText)
             /\ calls[c].status = "done") =>
            calls[c].response.ok /\ calls[c].response.payload.kind = "analysis"

\* a request with a title and a blank bodyText has been answered through POST /mcp
C2_Witness ==
  \E c \in DOMAIN calls :
    /\ calls[c].request.entry = "POST /mcp"
    /\ ExtractRequest(calls[c].request)
    /\ HasArguments(calls[c].request.arguments)
    /\ calls[c].request.arguments.title = pageTitle
    /\ calls[c].request.arguments.bodyText = <<" ", "\n">>
    /\ calls[c].status = "done"
    /\ ~calls[c].response.ok
    /\ calls[c].response.status = 500

ExtractArgumentsOf(r) == handlerOf(r, 0).arguments

\* the reply to a request as a function of the request, of the stop words its
\* own run of analyze identified, and of the clock
ExpectedReply(r, ownStopWords, now) ==
  LET a == ExtractArgumentsOf(r)
  IN IF extractQueryRejects(a) THEN errorReplyOf(r, now)
     ELSE CHOOSE reply \in
            {successReplyOf(r,
               queryResultOf(a,
                 analyzeWith(a.title,
                             IF Truthy(a.metaDescription) THEN a.metaDescription ELSE <<>>,
                             a.bodyText, a.language, ownStopWords),
                 now),
               now)} : TRUE

\* the words of the request being handled
OwnWords ==
  LET a == ExtractArgumentsOf(calls[current].request)
  IN wordsOf(combinedTextOf(a.title, IF Truthy(a.metaDescription) THEN a.metaDescription ELSE <<>>,
                            a.bodyText))

\* C9: whatever requests were handled before and whatever requests wait, a
\* call's loop over its words starts from its own words and no stop word, the
\* words do not change once set, each iteration decides on them and on its own
\* draw, the reply is
\* the one the call's own request, its stop words and the clock determine, and
\* a reply once given is not touched by later calls.
C9_CallsAreIndependent ==
  [][/\ (current # 0 /\ pc = "tokenize" /\ pc' # "tokenize") =>
          words' = OwnWords /\ stopWords' = <<>>
     /\ (current # 0 /\ pc = "stopwords" /\ draw' # draw) =>
          \A word \in {Distinct(words)[draw'.iteration]} :
            stopWords' = IF IsStopWord(words, word, draw'.seg)
                         THEN Append(stopWords, word) ELSE stopWords
     /\ pc # "tokenize" => words' = words
     /\ \A c \in DOMAIN calls :
          /\ (calls[c].status = "running" /\ calls'[c].status = "done") =>
               calls'[c].response = ExpectedReply(calls[c].request, stopWords, clock)
          /\ calls[c].status = "done" => calls'[c] = calls[c]]_vars

\* two different requests have been answered with a query, one of them the text
\* whose stop words its draws decide
C9_Witness ==
  \E c, d \in DOMAIN calls :
    /\ c # d
    /\ calls[c].request # calls[d].request
    /\ calls[c].status = "done" /\ calls[c].response.ok
    /\ calls[d].status = "done" /\ calls[d].response.ok
    /\ calls[c].request.arguments.bodyText = longBody
    /\ calls[c].response.payload.query.stopWordsDetected = <<ab>>
    /\ calls[d].response.payload.query.stopWordsDetected # <<>>
    /\ calls[c].response.at = 0
    /\ clock = 2


\* C11: every phrase extractNGrams returns has a coherence above 0.1 and occurs at
\* least once in the lowercased text, at most 20 phrases are returned, and they
\* are in non-increasing order of informationValue * coherence.
C11_PhrasesCoherentCappedRanked ==
  pc = "cluster" =>
    /\ \A i \in 1..Len(ngrams) :
         /\ 10 * ngrams[i].coherence > CoherenceDen
         /\ ngrams[i].frequency >= 1
         /\ countOccurrences(toLowerCase(combinedText), ngrams[i].phrase) >= 1
    /\ Len(ngrams) <= 20
    /\ \A i, j \in 1..Len(ngrams) : i < j => NGramKey(ngrams[i]) >= NGramKey(ngrams[j])

\* C11 witness: extractNGrams has returned twenty phrases out of more candidates,
\* three-word phrases before two-word ones
C11_Witness ==
  /\ pc = "cluster"
  /\ Len(ngrams) = 20
  /\ Len(candidateNGrams(tokens, combinedText)) > 20
  /\ NGramKey(ngrams[1]) > NGramKey(ngrams[20])


\* C12: no token calculateTFIDF returns is a stop word or a one-letter word, and
\* every word of the input that is no stop word and has more than one letter has
\* exactly one token, whose frequency is the number of its occurrences.
C12_TokensAreTheContentWords ==
  pc = "ngrams" =>
    /\ \A i \in 1..Len(tokens) :
         tokens[i].word \notin Range(stopWords) /\ Len(tokens[i].word) > 1
    /\ \A w \in Range(words) :
         (w \notin Range(stopWords) /\ Len(w) > 1) =>
           /\ Cardinality({i \in 1..Len(tokens) : tokens[i].word = w}) = 1
           /\ \A i \in 1..Len(tokens) :
                tokens[i].word = w =>
                  tokens[i].frequency = Cardinality({k \in 1..Len(words) : words[k] = w})

\* C12 witness: calculateTFIDF has returned a token of frequency two for a text
\* that also has a stop word and a one-letter word
C12_Witness ==
  /\ pc = "ngrams"
  /\ \E w \in Range(words) : Len(w) = 1 /\ w \notin Range(stopWords)
  /\ \E w \in Range(words) : w \in Range(stopWords)
  /\ \E i \in 1..Len(tokens) : tokens[i].frequency = 2


\* the word the last iteration of the stop-word loop was about
LastWord == Distinct(words)[draw.iteration]

\* the number of occurrences of the last word, and the number of the sentences
\* drawn for it in which it occurs
LastWordCount == Cardinality({i \in 1..Len(words) : words[i] = LastWord})

LastWordSentences ==
  LET sentences == approximateSentences(words, draw.seg)
  IN Cardinality({k \in 1..Len(sentences) : \E i \in 1..Len(sentences[k]) : sentences[k][i] = LastWord})

\* C13: after each iteration of the loop of identifyStopWordsStatistically, the
\* word of the iteration is a stop word if and only if its relative frequency is
\* above 1% and it has at most 4 letters, or it occurs in more than 20% of the
\* sentences drawn for it and has at most 6 letters; no stop word has more than
\* 6 letters.
C13_StopWordCriteria ==
  (pc \in {"stopwords", "tfidf"} /\ draw.iteration > 0) =>
    /\ LastWord \in Range(stopWords) <=>
         \/ (100 * LastWordCount > Len(words) /\ Len(LastWord) <= 4)
         \/ (5 * LastWordSentences > Len(draw.seg) /\ Len(LastWord) <= 6)
    /\ \A i \in 1..Len(stopWords) : Len(stopWords[i]) <= 6

\* C13 witness: a word of five letters has been left out of the stop words
\* because it occurs in one sentence of the five drawn for it
C13_Witness ==
  /\ pc = "stopwords"
  /\ draw.iteration > 0
  /\ Len(LastWord) = 5
  /\ Len(draw.seg) = 5
  /\ LastWordSentences = 1
  /\ LastWord \notin Range(stopWords)


\* the text has no character that survives the stripping as part of a word: each
\* is white space or none of a letter a-z or A-Z, a digit and the underscore
HasNoWord(text) == \A i \in 1..Len(text) : IsSpace(text[i]) \/ ~IsWordChar(text[i])

\* C14: for a text without a word after lower-casing and stripping (empty, white
\* space only, punctuation only), detectLanguageStatistically returns the tag
\* "unknown", confidence 0 and every shape feature 0.
C14_NoWordsIsUnknown ==
  (pc = "tokenize" /\ HasNoWord(combinedText)) =>
    /\ languageProfile.language = "unknown"
    /\ languageProfile.confidence.num = 0 /\ languageProfile.confidence.den > 0
    /\ languageProfile.avgWordLength.num = 0 /\ languageProfile.avgWordLength.den > 0
    /\ languageProfile.vowelRatio.num = 0 /\ languageProfile.vowelRatio.den > 0
    /\ languageProfile.consonantClusters = 0

\* C14 witness: the profiler has returned for a text of punctuation and spaces
C14_Witness ==
  /\ pc = "tokenize"
  /\ HasNoWord(combinedText)
  /\ \E i \in 1..Len(combinedText) : ~IsSpace(combinedText[i])
  /\ \E i \in 1..Len(combinedText) : IsSpace(combinedText[i])
  /\ languageProfile.language = "unknown"


\* the caller has supplied a language: a string that is not empty
LanguageSupplied == preferredLanguage # Undefined /\ Len(preferredLanguage) > 0

\* C15: when the caller supplies a language, the detection is skipped (the
\* profile has the supplied language, confidence 1 and no feature measured) and
\* the result reports the supplied language with languageConfidence 1.
C15_SuppliedLanguageWins ==
  /\ (pc \in {"tokenize", "stopwords", "tfidf"} /\ LanguageSupplied) =>
       /\ languageProfile.language = preferredLanguage
       /\ languageProfile.confidence.num = languageProfile.confidence.den
       /\ languageProfile.confidence.den > 0
       /\ languageProfile.avgWordLength.num = 0
       /\ languageProfile.vowelRatio.num = 0
       /\ languageProfile.consonantClusters = 0
  /\ (pc = "done" /\ LanguageSupplied) =>
       /\ result.language = preferredLanguage
       /\ result.languageConfidence.num = result.languageConfidence.den
       /\ result.languageConfidence.den > 0

\* C15 witness: analyze has returned the supplied language for a text that the
\* detection tags otherwise, with another confidence
C15_Witness ==
  /\ pc = "done"
  /\ LanguageSupplied
  /\ Len(words) > 1
  /\ detectLanguageStatistically(combinedText).language = "en"
  /\ detectLanguageStatistically(combinedText).confidence.num = 3
  /\ result.language = preferredLanguage

\* a is the first Len(a) entries of b
IsPrefixOf(a, b) == Len(a) <= Len(b) /\ a = SubSeq(b, 1, Len(a))

\* every match of the entity patterns in the text, in the order in which
\* extractEntitiesStatistically collects them, each kept once
EntitiesFound ==
  Distinct(Take(capitalizedSequences(combinedText, 1), 5) \o Take(numbers(combinedText, 1), 3)
           \o dates(combinedText, 1) \o urls(combinedText, 1))

\* C16: the result of analyze has at most 10 entities, none twice, at most 5
\* keyphrases, at most 5 clusters, at most 10 tokens and at most 10 stop words,
\* and each list is a prefix of the list the pipeline computed: the entities
\* found, the ranked phrases, the ranked clusters, the weighted tokens, the
\* stop words identified
C16_ReturnedListsArePrefixes ==
  pc = "done" =>
    /\ Len(result.entities) <= 10
    /\ \A i, j \in DOMAIN result.entities : result.entities[i] = result.entities[j] => i = j
    /\ IsPrefixOf(result.entities, EntitiesFound)
    /\ Len(result.keyphrases) <= 5
    /\ IsPrefixOf(result.keyphrases, [i \in DOMAIN ngrams |-> ngrams[i].phrase])
    /\ Len(result.semanticClusters) <= 5
    /\ IsPrefixOf(result.semanticClusters, clusters)
    /\ Len(result.tokens) <= 10
    /\ IsPrefixOf(result.tokens, tokens)
    /\ Len(result.stopWordsIdentified) <= 10
    /\ IsPrefixOf(result.stopWordsIdentified, stopWords)

\* C16 witness: analyze has returned and every limit has cut its list: there
\* are more entities, phrases, clusters, tokens and stop words than returned,
\* and one entity was found twice
C16_Witness ==
  /\ pc = "done"
  /\ Len(result.entities) = 10 /\ Len(EntitiesFound) > 10
  /\ Len(numbers(combinedText, 1)) > Len(Distinct(numbers(combinedText, 1)))
  /\ Len(result.keyphrases) = 5 /\ Len(ngrams) > 5
  /\ Len(result.semanticClusters) = 5 /\ Len(clusters) > 5
  /\ Len(result.tokens) = 10 /\ Len(tokens) > 10
  /\ Len(result.stopWordsIdentified) = 10 /\ Len(stopWords) > 10

\* the score of the first returned cluster plus the informationValue of the
\* first-ranked phrase, in units of 1/Scale; a missing one counts 0
TopScores ==
  (IF Len(result.semanticClusters) > 0 THEN result.semanticClusters[1].coherenceScore ELSE 0)
  + (IF Len(ngrams) > 0 THEN ngrams[1].informationValue ELSE 0)

\* C17: the confidence analyze returns is an integer in 0..100: 100 when
\* (first cluster score + first phrase informationValue) * 10 rounds to 100 or
\* more, otherwise the integer nearest to that product, halves rounded up
C17_ConfidenceFromTopScores ==
  pc = "done" =>
    /\ result.confidence \in 0..100
    /\ \/ result.confidence = 100 /\ 2 * 10 * TopScores >= 2 * 100 * Scale - Scale
       \/ /\ result.confidence < 100
          /\ 2 * result.confidence * Scale - Scale <= 2 * 10 * TopScores
          /\ 2 * 10 * TopScores < 2 * result.confidence * Scale + Scale

\* C17 witness: analyze has returned a cluster and a phrase with positive
\* scores, and a confidence that the rounding moved away from the product
C17_Witness ==
  /\ pc = "done"
  /\ Len(result.semanticClusters) > 0 /\ result.semanticClusters[1].coherenceScore > 0
  /\ Len(ngrams) > 0 /\ ngrams[1].informationValue > 0
  /\ result.confidence > 0
  /\ result.confidence * Scale # 10 * TopScores

\* C17 witness of the missing parts: analyze has returned with neither a
\* cluster nor a phrase, and confidence 0
C17_WitnessMissing ==
  /\ pc = "done"
  /\ Len(result.semanticClusters) = 0
  /\ Len(ngrams) = 0
  /\ result.confidence = 0

\* text contains the characters of part in a row
Contains(text, part) ==
  \E i \in 1..(Len(text) - Len(part) + 1) : SubSeq(text, i, i + Len(part) - 1) = part

\* C18: for the page of the scenario analyze returns queryType "commercial" and
\* a mainQuery that contains "laptops" or "price" and is not a single stop word
C18_ScenarioIsCommercial ==
  pc = "done" =>
    /\ result.queryType = "commercial"
    /\ \/ Contains(result.mainQuery, ScenarioParts[2])
       \/ Contains(result.mainQuery, SubSeq(ScenarioParts[3], 1, 5))
    /\ \A i \in DOMAIN stopWords : result.mainQuery # stopWords[i]

\* C18, the part that holds: the mainQuery of the scenario contains "laptops"
\* or "price" and is not a single stop word
C18_ScenarioMainQuery ==
  pc = "done" =>
    /\ \/ Contains(result.mainQuery, ScenarioParts[2])
       \/ Contains(result.mainQuery, SubSeq(ScenarioParts[3], 1, 5))
    /\ \A i \in DOMAIN stopWords : result.mainQuery # stopWords[i]

\* C18, what the code does: no term of the scenario is quantitative, so
\* "commercial" scores 0 and is never returned
C18_ScenarioIsNeverCommercial ==
  pc = "done" => result.queryType # "commercial"

\* the candidates of clusterSemantically in input order: the tokens by weight,
\* then the phrases by rank
Candidates == [i \in 1..Len(tokens) |-> tokens[i].word] \o [i \in 1..Len(ngrams) |-> ngrams[i].phrase]

\* the place of a term in the candidate order
CandidateIndex(term) == CHOOSE i \in 1..Len(Candidates) : Candidates[i] = term

\* the centroid of each cluster is the first entry of its member list, and every
\* other member comes later in the candidate order than the centroid
CentroidsLead(cls) ==
  \A c \in 1..Len(cls) :
    /\ cls[c].members[1] = cls[c].centroid
    /\ \A m \in 2..Len(cls[c].members) :
         /\ cls[c].members[m] \in Range(Candidates)
         /\ CandidateIndex(cls[c].members[m]) > CandidateIndex(cls[c].centroid)

\* C19: clustering is one greedy pass over the candidates in input order: the
\* outer loop visits them one after the other and never goes back; a cluster is
\* opened only for the candidate being visited, and only if that candidate is in
\* no cluster yet; the centroid is the first member, and every other member of a
\* cluster comes later in the candidate order than its centroid, in the
\* clusters being built and in those returned
C19_GreedySinglePass ==
  /\ [](pc \in {"cluster", "classify"} => CentroidsLead(BuiltClusters) /\ CentroidsLead(clusters))
  /\ [][pc = "cluster" /\ pc' = "cluster" =>
          /\ clustering'.term \in {clustering.term, clustering.term + 1}
          /\ Len(BuiltClusters') > Len(BuiltClusters) =>
                /\ clustering'.term = clustering.term
                /\ clustering'.cluster.centroid = Candidates[clustering.term]
                /\ Candidates[clustering.term] \notin AllMembers(BuiltClusters)
                /\ \A k \in 1..(clustering.term - 1) : Candidates[k] \in AllMembers(BuiltClusters)]_vars

\* C19 witness: the pass is over, it has met a candidate that was already
\* assigned, and a cluster has a member that comes later in the candidate order
\* than the centroid of a cluster opened after it
C19_Witness ==
  /\ pc = "classify"
  /\ Len(clustering.clusters) >= 2
  /\ Len(clustering.clusters) < Len(Candidates)
  /\ \E c \in 1..Len(clustering.clusters) : \E d \in (c + 1)..Len(clustering.clusters) :
       \E m \in 2..Len(clustering.clusters[c].members) :
         CandidateIndex(clustering.clusters[c].members[m])
           > CandidateIndex(clustering.clusters[d].centroid)

\* the clusters that clusterSemantically built and did not return
DroppedClusters ==
  {c \in Range(clustering.clusters) : c \notin Range(clusters)}

\* C20: clusterSemantically returns at most 10 clusters, in non-increasing order
\* of score, all of them clusters it built, and no cluster it built and dropped
\* has a higher score than a cluster it returned
C20_TopTenClustersByScore ==
  pc = "classify" =>
    /\ Len(clusters) <= 10
    /\ \A i, j \in 1..Len(clusters) :
         i < j => clusters[i].coherenceScore >= clusters[j].coherenceScore
    /\ Range(clusters) \subseteq Range(clustering.clusters)
    /\ Len(clusters) + Cardinality(DroppedClusters) = Len(clustering.clusters)
    /\ \A c \in Range(clusters) : \A d \in DroppedClusters :
         c.coherenceScore >= d.coherenceScore

\* C20 witness: more than ten clusters were built, ten are returned in an order
\* that is not the order in which they were built, and a dropped cluster has a
\* lower score than every returned one
C20_Witness ==
  /\ pc = "classify"
  /\ Len(clustering.clusters) > 10
  /\ Len(clusters) = 10
  /\ clusters # SubSeq(clustering.clusters, 1, 10)
  /\ clusters[1].coherenceScore > clusters[10].coherenceScore
  /\ \E d \in DroppedClusters : d.coherenceScore < clusters[10].coherenceScore

\* the words of a term, as a set
WordSet(term) == Range(splitWs(term))

\* the candidate of the outer loop and the one the inner loop looks at
ScannedPair ==
  [term |-> Candidates[clustering.term], other |-> Candidates[clustering.other]]

\* the inner loop is at a candidate that is neither the centroid nor assigned
Scanning ==
  /\ pc = "cluster"
  /\ clustering.cluster # NoCluster
  /\ clustering.other \in 1..Len(Candidates)
  /\ ScannedPair.other # ScannedPair.term
  /\ ScannedPair.other \notin AllMembers(BuiltClusters)

\* the least distance between the positions of two terms is below 5 - 5 * 0.3
PositionsAdjacent(term1, term2) ==
  /\ Len(getTermPositions(term1, tokens, ngrams)) > 0
  /\ Len(getTermPositions(term2, tokens, ngrams)) > 0
  /\ 10 * (5 - MinDistance(getTermPositions(term1, tokens, ngrams),
                           getTermPositions(term2, tokens, ngrams))) > 3 * 5

\* the similarity of the pair is the share of common words among all the words
\* of the two terms when there is a common word, and otherwise 0 or
\* (5 - least distance) / 5 of their positions
SimilarityByWordsFirst(term1, term2) ==
  \A sim \in {calculateTermSimilarity(term1, term2, tokens, ngrams)} :
    \A common \in {WordSet(term1) \cap WordSet(term2)} :
      /\ common # {} =>
           sim.num * Cardinality(WordSet(term1) \cup WordSet(term2)) = Cardinality(common) * sim.den
      /\ common = {} =>
           \/ sim.num = 0 /\ ~PositionsAdjacent(term1, term2)
           \/ /\ sim.num > 0
              /\ sim.den = 5
              /\ sim.num = 5 - MinDistance(getTermPositions(term1, tokens, ngrams),
                                           getTermPositions(term2, tokens, ngrams))

\* the two terms share a word and at most 0.3 of their words
SmallOverlap(term1, term2) ==
  /\ WordSet(term1) \cap WordSet(term2) # {}
  /\ 10 * Cardinality(WordSet(term1) \cap WordSet(term2))
       <= 3 * Cardinality(WordSet(term1) \cup WordSet(term2))

\* C21: for every pair the clusterer compares, calculateTermSimilarity is the
\* Jaccard overlap of the two word sets when they share a word, and depends on
\* the positions only when they share none; and a step of the inner loop on a
\* pair that shares a word with an overlap of at most 0.3 attaches nothing
C21_WordOverlapBeforePositions ==
  /\ [](Scanning => SimilarityByWordsFirst(ScannedPair.term, ScannedPair.other))
  /\ [][Scanning /\ SmallOverlap(ScannedPair.term, ScannedPair.other) =>
          /\ clustering'.other = clustering.other + 1
          /\ clustering'.cluster = clustering.cluster]_vars

\* C21 witness: the inner loop is at an unassigned candidate that shares a word
\* with the centroid, with an overlap of at most 0.3, and whose positions are
\* close enough to those of the centroid for the positional similarity to
\* exceed 0.3
C21_Witness ==
  /\ Scanning
  /\ SmallOverlap(ScannedPair.term, ScannedPair.other)
  /\ PositionsAdjacent(ScannedPair.term, ScannedPair.other)

\* twice the sum of the scores of the clusters of the given categories
TwiceScoreOf(categories) ==
  SumSeq([i \in 1..Len(clusters) |->
            IF clusters[i].category \in categories THEN 2 * clusters[i].coherenceScore ELSE 0])

\* twice the four accumulated scores: 2 x quantitative, 1.5 x action, 1 x entity,
\* 1 x concept and descriptor plus 0.5 x every other category
TwiceAccumulated ==
  [commercial |-> 2 * TwiceScoreOf({"quantitative"}),
   transactional |-> (3 * TwiceScoreOf({"action"})) \div 2,
   navigational |-> TwiceScoreOf({"entity"}),
   informational |->
     TwiceScoreOf({"concept", "descriptor"})
     + TwiceScoreOf(Categories \ {"quantitative", "action", "entity", "concept", "descriptor"}) \div 2]

\* C22: the classifier accumulates 2 x the score of quantitative clusters into
\* commercial, 1.5 x of action clusters into transactional, 1 x of entity
\* clusters into navigational, 1 x of concept and descriptor clusters and 0.5 x
\* of all others into informational, and returns a type whose accumulated score
\* no other type exceeds; so it returns "commercial" only when a cluster is
\* quantitative, and "informational" when there is no cluster
C22_WeightedCategoryScores ==
  pc = "select" =>
    /\ \A k \in 1..4 : categoryScoresOf(clusters)[k] = TwiceAccumulated[QueryTypes[k]]
    /\ \A k \in 1..4 : TwiceAccumulated[queryType] >= TwiceAccumulated[QueryTypes[k]]
    /\ queryType = "commercial" => \E i \in 1..Len(clusters) : clusters[i].category = "quantitative"
    /\ Len(clusters) = 0 => queryType = "informational"

\* C22 witness: the classifier has run on an action cluster and a concept
\* cluster of the same positive score, and the factor 1.5 made it return
\* "transactional"
C22_Witness ==
  /\ pc = "select"
  /\ Len(clusters) = 2
  /\ clusters[1].category = "concept"
  /\ clusters[2].category = "action"
  /\ clusters[1].coherenceScore = clusters[2].coherenceScore
  /\ clusters[1].coherenceScore > 0
  /\ queryType = "transactional"

\* what the rules of detectLanguageStatistically measure on a text: counts on
\* the lowercased text with everything but [A-Za-z0-9_] and white space blanked,
\* the entropy of the word lengths and the entropy of the pairs of letters
MeasuredFeatures(text) ==
  LET clean == cleanTextOf(text)
      ws == splitWords(clean)
  IN [nWords |-> Len(ws),
      totalChars |-> SumSeq([i \in 1..Len(ws) |-> Len(ws[i])]),
      vowels |-> CountChars(clean, VowelChars),
      diacritics |-> CountChars(clean, DiacriticChars),
      consonantClusters |-> CountConsonantClusters(clean),
      entropy |-> calculateEntropy(CountsOf([i \in 1..Len(ws) |-> Len(ws[i])])),
      bigramEntropy |-> calculateBigramEntropy(clean)]

GermanRule(f) == f.totalChars > 6 * f.nWords /\ 10 * f.consonantClusters > f.nWords

RomanceRule(f) == 100 * f.diacritics > 2 * f.totalChars /\ 10 * f.vowels > 4 * f.totalChars

ItalianRule(f) == 100 * f.diacritics > f.totalChars /\ f.entropy > 2 * EntropyScale

\* the base confidence of a tag, in tenths
BaseTenths(language) ==
  CASE language = "de" -> 7
    [] language \in {"es", "fr"} -> 6
    [] language = "it" -> 5
    [] language = "en" -> 3
    [] OTHER -> 0

\* C23: the tag of a detected language is that of the first rule that matches in
\* the order de, es/fr, it, en; its confidence is the base value of the rule
\* (0.7, 0.6, 0.5, 0.3), plus 0.2 and at most 0.9 when the entropy of the pairs
\* of letters exceeds 4.0; the confidence never exceeds 0.9 and is 0 exactly
\* when the tag is "unknown"
C23_RulesInOrderConfidenceCapped ==
  pc = "tokenize" =>
    \A f \in {MeasuredFeatures(combinedText)} :
      /\ languageProfile.language = "unknown" <=> f.nWords = 0
      /\ languageProfile.language = "de" <=> f.nWords > 0 /\ GermanRule(f)
      /\ languageProfile.language \in {"es", "fr"} <=>
           f.nWords > 0 /\ ~GermanRule(f) /\ RomanceRule(f)
      /\ languageProfile.language = "it" <=>
           f.nWords > 0 /\ ~GermanRule(f) /\ ~RomanceRule(f) /\ ItalianRule(f)
      /\ languageProfile.language = "en" <=>
           f.nWords > 0 /\ ~GermanRule(f) /\ ~RomanceRule(f) /\ ~ItalianRule(f)
      /\ languageProfile.confidence.den > 0
      /\ 10 * languageProfile.confidence.num <= 9 * languageProfile.confidence.den
      /\ languageProfile.confidence.num = 0 <=> languageProfile.language = "unknown"
      /\ f.nWords > 0 =>
           10 * languageProfile.confidence.num
             = languageProfile.confidence.den
                 * (IF f.bigramEntropy > 4 * EntropyScale
                    THEN Min2(9, BaseTenths(languageProfile.language) + 2)
                    ELSE BaseTenths(languageProfile.language))

\* C23 witness: the profiler has tagged a text "de" whose pairs of letters have
\* an entropy above 4.0 and which also matches no other rule than the default,
\* with confidence 0.9
C23_Witness ==
  /\ pc = "tokenize"
  /\ languageProfile.language = "de"
  /\ MeasuredFeatures(combinedText).bigramEntropy > 4 * EntropyScale
  /\ languageProfile.confidence = Ratio(9, 10)

\* C23 witness of the plain and raised confidences of the default rule
C23_WitnessDefault ==
  /\ pc = "tokenize"
  /\ languageProfile.language = "en"
  /\ MeasuredFeatures(combinedText).bigramEntropy > 4 * EntropyScale
  /\ languageProfile.confidence = Ratio(5, 10)

\* the distinct words of at most six letters among the first k distinct words
ShortWordsAmong(k) ==
  LET AtMostSix(w) == Len(w) <= 6
  IN SelectSeq(SubSeq(Distinct(words), 1, k), AtMostSix)

\* C24: on a text of at most 40 words (four sentences of the least length),
\* whatever the draws of the sentence boundaries, the stop words after each
\* iteration are the distinct words of at most six letters met so far, and at
\* the end of the loop all the distinct words of at most six letters
C24_ShortTextStopWords ==
  (pc \in {"stopwords", "tfidf"} /\ Len(words) <= 4 * MinSentenceWords) =>
    /\ Len(draw.seg) <= 4
    /\ stopWords = ShortWordsAmong(draw.iteration)
    /\ pc = "tfidf" /\ Len(words) > 0 => stopWords = ShortWordsAmong(Len(Distinct(words)))

\* C24 witness: the loop is over on a text of 40 words cut into four sentences;
\* a word of five letters that occurs once, in one of the four sentences, is a
\* stop word, and a word of seven letters is not
C24_Witness ==
  /\ pc = "tfidf"
  /\ Len(words) = 4 * MinSentenceWords
  /\ Len(draw.seg) = 4
  /\ \E w \in Range(stopWords) :
       Len(w) = 5 /\ Cardinality({i \in 1..Len(words) : words[i] = w}) = 1
  /\ \E i \in 1..Len(words) : Len(words[i]) = 7 /\ words[i] \notin Range(stopWords)

\* C25: the candidates of the clusterer are lowercase, so no cluster, built or
\* returned, has category "entity"; the navigational score is 0; the query type
\* that the classifier computes and analyze returns is "commercial",
\* "transactional" or "informational", never "navigational"
C25_NeverNavigational ==
  /\ \A i \in 1..Len(Candidates) : Candidates[i] = toLowerCase(Candidates[i])
  /\ pc = "cluster" => \A i \in 1..Len(BuiltClusters) : BuiltClusters[i].category # "entity"
  /\ pc \in {"classify", "select", "done"} =>
       /\ \A i \in 1..Len(clusters) : clusters[i].category # "entity"
       /\ categoryScoresOf(clusters)[3] = 0
  /\ pc \in {"select", "done"} => queryType \in {"commercial", "transactional", "informational"}
  /\ pc = "done" => result.queryType \in {"commercial", "transactional", "informational"}

\* C25 witness: analyze has returned for a page on which a word written with a
\* capital letter has the semantic role "entity" and is the centroid of a
\* returned cluster, whose category is not "entity"
C25_Witness ==
  /\ pc = "done"
  /\ \E i \in 1..Len(tokens) :
       /\ tokens[i].semanticRole = "entity"
       /\ Contains(combinedText, Capitalized(tokens[i].word))
       /\ \E c \in 1..Len(clusters) :
            clusters[c].centroid = tokens[i].word /\ clusters[c].category # "entity"

\* C29: every token's role bounds its frequency: "entity" implies a frequency
\* of 3 or 4, "content" a frequency of at least 3, "modifier" a frequency from
\* 2 to 9; so a token that occurs exactly once has the role "function"
C29_RoleBoundsFrequency ==
  \A i \in 1..Len(tokens) :
    /\ tokens[i].frequency = Len(tokens[i].positions)
    /\ tokens[i].frequency >= 1
    /\ tokens[i].semanticRole \in {"entity", "content", "modifier", "function"}
    /\ tokens[i].semanticRole = "entity" => tokens[i].frequency \in {3, 4}
    /\ tokens[i].semanticRole = "content" => tokens[i].frequency >= 3
    /\ tokens[i].semanticRole = "modifier" => tokens[i].frequency \in 2..9
    /\ tokens[i].frequency = 1 => tokens[i].semanticRole = "function"

\* the roles of the tokens of the current analysis
RolesFound == {tokens[i].semanticRole : i \in 1..Len(tokens)}

\* C29 witness: one page yields tokens of all four roles, among them an entity
\* occurring 4 times, a modifier occurring twice and a word occurring once
C29_Witness ==
  /\ RolesFound = {"entity", "content", "modifier", "function"}
  /\ \E i \in 1..Len(tokens) :
       tokens[i].semanticRole = "entity" /\ tokens[i].frequency = 4
  /\ \E i \in 1..Len(tokens) :
       tokens[i].semanticRole = "modifier" /\ tokens[i].frequency = 2
  /\ \E i \in 1..Len(tokens) :
       tokens[i].semanticRole = "function" /\ tokens[i].frequency = 1

\* the clusters built so far whose centroid is a single word
TokenCentroids == {c \in 1..Len(BuiltClusters) : " " \notin Range(BuiltClusters[c].centroid)}

\* the clusters built so far whose centroid is a phrase
PhraseCentroids == {c \in 1..Len(BuiltClusters) : " " \in Range(BuiltClusters[c].centroid)}

\* C26: a phrase is the centroid of a cluster only if none of its words is a
\* centroid: a token and a phrase that contains it have a similarity of at
\* least 1/3, which is above the threshold, and once the cluster seeded by a
\* token is complete every phrase containing the token is a member of it or
\* of a cluster opened before it
C26_PhraseCentroidHasNoCentroidWord ==
  pc \in {"cluster", "classify"} =>
    /\ \A i \in 1..Len(tokens) : \A j \in 1..Len(ngrams) :
         tokens[i].word \in WordSet(ngrams[j].phrase) =>
           \A s \in {calculateTermSimilarity(tokens[i].word, ngrams[j].phrase, tokens, ngrams)} :
             /\ 3 * s.num >= s.den
             /\ 10 * s.num > 3 * s.den
    /\ \A c \in 1..Len(clustering.clusters) : \A j \in 1..Len(ngrams) :
         clustering.clusters[c].centroid \in WordSet(ngrams[j].phrase) =>
           \E d \in 1..c :
             /\ ngrams[j].phrase \in Range(clustering.clusters[d].members)
             /\ ngrams[j].phrase # clustering.clusters[d].centroid
    /\ \A c \in PhraseCentroids : \A d \in 1..Len(BuiltClusters) :
         BuiltClusters[d].centroid \notin WordSet(BuiltClusters[c].centroid)

\* C26 witness: the pass is over; a cluster seeded by a token holds a phrase of
\* three words containing the token, and another cluster has a phrase as its
\* centroid
C26_Witness ==
  /\ pc = "classify"
  /\ PhraseCentroids # {}
  /\ \E c \in TokenCentroids : \E m \in 2..Len(BuiltClusters[c].members) :
       /\ BuiltClusters[c].centroid \in WordSet(BuiltClusters[c].members[m])
       /\ Cardinality(WordSet(BuiltClusters[c].members[m])) = 3

\* the members of the clusters that were built and not returned
DroppedMembers == UNION {Range(d.members) : d \in DroppedClusters}

\* C27: when the pass is over and before the truncation, every candidate (every
\* token and every kept phrase) is in exactly one cluster at exactly one place,
\* and the clusters hold nothing but candidates; after the truncation to ten a
\* candidate of a dropped cluster is in no returned cluster, and the candidates
\* of the returned clusters are in them exactly once
C27_ClustersPartitionCandidates ==
  /\ pc = "cluster" /\ ClusteringDone(clustering, allTermsOf(tokens, ngrams)) =>
       /\ AllMembers(clustering.clusters) = Range(Candidates)
       /\ \A i \in 1..Len(Candidates) :
            Cardinality(MemberPlaces(Candidates[i], clustering.clusters)) = 1
  /\ pc = "classify" =>
       /\ AllMembers(clustering.clusters) = Range(Candidates)
       /\ \A i \in 1..Len(Candidates) :
            /\ Cardinality(MemberPlaces(Candidates[i], clustering.clusters)) = 1
            /\ Cardinality(MemberPlaces(Candidates[i], clusters))
                 = (IF Candidates[i] \in DroppedMembers THEN 0 ELSE 1)

\* C27 witness: more than ten clusters were built, among them one with several
\* members, and a candidate of a dropped cluster is in no returned cluster
C27_Witness ==
  /\ pc = "classify"
  /\ Len(clustering.clusters) > 10
  /\ \E c \in 1..Len(clusters) : Len(clusters[c].members) >= 2
  /\ \E i \in 1..Len(Candidates) :
       Candidates[i] \in DroppedMembers /\ Candidates[i] \notin AllMembers(clusters)

\* the induced stop words, as a set
StopWordSet == Range(stopWords)

\* C28: when at least one token survives the filtering, the main query that
\* analyze returns is a kept phrase or the word of a token, and none of its
\* words is an induced stop word; a main query that is neither a phrase nor a
\* token word is the lowercased title, returned when there is no token
C28_MainQueryAvoidsStopWords ==
  pc = "done" =>
    /\ \A i \in 1..Len(tokens) : tokens[i].word \notin StopWordSet
    /\ \A j \in 1..Len(ngrams) :
         WordSet(ngrams[j].phrase) \subseteq {tokens[i].word : i \in 1..Len(tokens)}
    /\ Len(tokens) > 0 =>
         /\ result.mainQuery \in Range(Candidates)
         /\ WordSet(result.mainQuery) \cap StopWordSet = {}
    /\ result.mainQuery \notin Range(Candidates) =>
         /\ Len(tokens) = 0
         /\ result.mainQuery = toLowerCase(title)

\* C28 witness: stop words were induced, among them a word of the title, tokens
\* survive, and the main query is a token word that the title does not hold
C28_Witness ==
  /\ pc = "done"
  /\ Len(tokens) > 0
  /\ WordSet(toLowerCase(title)) \cap StopWordSet # {}
  /\ result.mainQuery \in {tokens[i].word : i \in 1..Len(tokens)}
  /\ ~includes(toLowerCase(title), result.mainQuery)

\* C28 witness: no token survives and the main query is the lowercased title,
\* which is an induced stop word
C28_WitnessTitle ==
  /\ pc = "done"
  /\ Len(tokens) = 0
  /\ result.mainQuery = toLowerCase(title)
  /\ result.mainQuery \in StopWordSet

\* the calls that are POST /mcp requests
McpCalls == {c \in DOMAIN calls : calls[c].request.entry = "POST /mcp"}

\* the argument object is absent or lacks one of the fields
MissingField(a, fields) == ~HasArguments(a) \/ \E f \in fields : a[f] = Undefined

\* the JSON-RPC error response with this HTTP status and this code
IsErrorResponse(response, status, code) ==
  /\ ~response.ok
  /\ response.status = status
  /\ response.code = code
  /\ response.payload = NoPayload

\* the response the first matching branch of the handler gives to a request
AnswersByFirstMatch(call) ==
  LET r == call.request
      response == call.response
  IN IF r.jsonrpc # "2.0"
     THEN IsErrorResponse(response, 400, -32600) /\ ~call.analyzed
     ELSE IF r.method = "tools/list"
     THEN /\ response.ok /\ response.status = 200
          /\ response.payload = [kind |-> "tools", tools |-> ToolNames]
          /\ ~call.analyzed
     ELSE IF r.method = "tools/call" /\ r.name = "wrap_as_seontology"
     THEN /\ \/ response.ok /\ response.status = 200 /\ response.payload.kind = "jsonld"
             \/ IsErrorResponse(response, 500, -32603)
          /\ MissingField(r.arguments, {"url", "title", "metaDescription", "primaryQuery"})
               => IsErrorResponse(response, 500, -32603)
     ELSE IF r.method = "tools/call" /\ r.name = "extract_main_query"
     THEN /\ \/ response.ok /\ response.status = 200 /\ response.payload.kind = "query"
                /\ call.analyzed
             \/ IsErrorResponse(response, 500, -32603) /\ ~call.analyzed
          /\ MissingField(r.arguments, {"title", "bodyText"})
               => IsErrorResponse(response, 500, -32603)
     ELSE IsErrorResponse(response, 404, -32601) /\ ~call.analyzed

C30_WitnessInvalid ==
  \E c \in McpCalls :
    /\ calls[c].status = "done"
    /\ calls[c].request.jsonrpc # "2.0"
    /\ calls[c].request.method = "tools/list"
    /\ IsErrorResponse(calls[c].response, 400, -32600)

\* C30 witness: a tools/call of an unknown tool has been answered with 404 and
\* code -32601
C30_WitnessNotFound ==
  \E c \in McpCalls :
    /\ calls[c].status = "done"
    /\ calls[c].request.method = "tools/call"
    /\ calls[c].request.name \notin Range(ToolNames)
    /\ IsErrorResponse(calls[c].response, 404, -32601)

\* C30 witness: extract_main_query has given its result to a tools/call
C30_WitnessResult ==
  \E c \in McpCalls :
    /\ calls[c].status = "done"
    /\ calls[c].request.name = "extract_main_query"
    /\ calls[c].response.ok
    /\ calls[c].response.payload.kind = "query"

\* C30 witness: wrap_as_seontology has given its JSON-LD to a tools/call
C30_WitnessWrapped ==
  \E c \in McpCalls :
    /\ calls[c].status = "done"
    /\ calls[c].request.name = "wrap_as_seontology"
    /\ calls[c].response.ok
    /\ calls[c].response.payload.kind = "jsonld"

====
